---- MODULE Spec2Model ----
(***************************************************************************)
(* Model of openmmwrap's frame selector (md/frameselection.py) acting on   *)
(* a pandas data frame of state data (io/statedataio.py).                  *)
(*                                                                         *)
(* A data frame is a record [index, cols]: index is the sequence of row    *)
(* labels (read_csv with index_col = False gives the labels 0 .. n-1) and  *)
(* cols maps each column label to the sequence of its values.  Column      *)
(* values are integers; a mean and an absolute difference from a mean are  *)
(* exact fractions [num, den] in lowest terms.  For integer data the       *)
(* float64 mean and differences pandas computes compare (equal, less) the  *)
(* way these fractions do.                                                 *)
(***************************************************************************)
EXTENDS Integers, Sequences, FiniteSets, TLC

\* Longest enumerated series (number of rows).
MaxLen == 5

\* Values a state-data cell is drawn from.
Vals == 0 .. 2

------------------------------------------------------------------------------
(* io/defaults.py *)

QUANTITIES2COLS ==
    [step             |-> "Step",
     time             |-> "Time (ps)",
     potential_energy |-> "Potential Energy (kJ/mole)",
     kinetic_energy   |-> "Kinetic Energy (kJ/mole)",
     total_energy     |-> "Total Energy (kJ/mole)",
     temperature      |-> "Temperature (K)",
     box_volume       |-> "Box Volume (nm^3)",
     density          |-> "Density (g/mL)",
     mass             |-> "Mass"]

------------------------------------------------------------------------------
(* Arithmetic on fractions *)

Abs(x) == IF x < 0 THEN -x ELSE x

RECURSIVE Gcd(_, _)
Gcd(a, b) == IF b = 0 THEN a ELSE Gcd(b, a % b)

\* The fraction num/den (den > 0) in lowest terms.
Frac(num, den) ==
    LET g == Gcd(Abs(num), den)
    IN [num |-> num \div g, den |-> den \div g]

\* The value pandas gives the mean of an empty column.
NaN == [num |-> 0, den |-> 0]

FracLess(a, b) == a.num * b.den < b.num * a.den

RECURSIVE SumSeq(_)
SumSeq(s) == IF s = <<>> THEN 0 ELSE Head(s) + SumSeq(Tail(s))

------------------------------------------------------------------------------
(* The pandas operations frameselection.py uses *)

NRows(frame) == Len(frame.index)

Columns(frame) == DOMAIN frame.cols

\* frame.iloc[start:] (start counted from 0): a new frame object holding the
\* rows from position start on, with their labels and every column.
ILocFrom(frame, start) ==
    [index |-> SubSeq(frame.index, start + 1, NRows(frame)),
     cols  |-> [c \in Columns(frame) |->
                   SubSeq(frame.cols[c], start + 1, NRows(frame))]]

\* series.mean()
Mean(s) == IF s = <<>> THEN NaN ELSE Frac(SumSeq(s), Len(s))

\* (series - mean_value).abs()
AbsDiff(s, mean_value) ==
    [i \in 1 .. Len(s) |->
        Frac(Abs(s[i] * mean_value.den - mean_value.num), mean_value.den)]

\* frame[col] = values: the column is added, or replaced when present.
SetItem(frame, col, values) ==
    [index |-> frame.index,
     cols  |-> [c \in Columns(frame) \cup {col} |->
                   IF c = col THEN values ELSE frame.cols[c]]]

\* The position (from 1) of the first minimum of a non-empty sequence of
\* fractions.
ArgMinFirst(s) ==
    CHOOSE i \in 1 .. Len(s) :
        /\ \A j \in 1 .. Len(s) : ~ FracLess(s[j], s[i])
        /\ \A j \in 1 .. (i - 1) : FracLess(s[i], s[j])

\* frame[col].idxmin(): the label of the first row holding the minimum.
IdxMin(frame, col) == frame.index[ArgMinFirst(frame.cols[col])]

\* The position (from 1) of the row labelled label.
PosOf(frame, label) ==
    CHOOSE i \in 1 .. NRows(frame) : frame.index[i] = label

\* frame.loc[label]: the row labelled label, as a mapping from column label
\* to value.
Loc(frame, label) ==
    [c \in Columns(frame) |-> frame.cols[c][PosOf(frame, label)]]

\* row.drop(col)
Drop(row, col) == [c \in (DOMAIN row) \ {col} |-> row[c]]

------------------------------------------------------------------------------
(* md/frameselection.py *)

Returned(label, row) ==
    [kind |-> "row", exc |-> "none", name |-> label, row |-> row]

Raised(exc) ==
    [kind |-> "raise", exc |-> exc, name |-> -1, row |-> [c \in {} |-> 0]]

\* Lines 58-61: the frame the local name df refers to from line 61 on, the
\* caller's frame or the slice second_half itself.
WorkingFrame(df_, second_half, use_second_half) ==
    IF use_second_half THEN second_half ELSE df_

\* MeanValue taking the mean over the caller's whole frame whatever the flag.
MeanValueOverAll(df_, second_half, use_second_half, col) ==
    Mean(df_.cols[col])

\* Line 64: mean_value = df[col].mean(), df being the frame of lines 58-61.
MeanValue(df_, second_half, use_second_half, col) ==
    Mean(WorkingFrame(df_, second_half, use_second_half).cols[col])

\* The caller's frame after line 67.  With use_second_half false the
\* assignment df["diff"] = ... is made on the caller's frame.  With
\* use_second_half true it is made on the slice; when the slice already
\* carried a "diff" column (a view of the caller's) and the pandas build
\* assigns an existing column in place, the values land in the caller's rows
\* from middle_index on.
CallerAfterSetDiff(df_, middle_index, use_second_half, diff, in_place) ==
    IF ~ use_second_half
    THEN SetItem(df_, "diff", diff)
    ELSE IF "diff" \in Columns(df_) /\ in_place
         THEN SetItem(df_, "diff",
                      SubSeq(df_.cols["diff"], 1, middle_index) \o diff)
         ELSE df_

\* The slice second_half after line 67.  With use_second_half true it is the
\* frame assigned to.  With use_second_half false it was cut at line 51,
\* before the assignment: it has a "diff" column only if the caller's frame
\* had one on entry, holding the values of that time unless the build
\* assigns in place.
SecondHalfAfterSetDiff(df_, middle_index, use_second_half, diff, in_place) ==
    LET second_half == ILocFrom(df_, middle_index)
    IN IF use_second_half
       THEN SetItem(second_half, "diff", diff)
       ELSE IF "diff" \in Columns(df_) /\ in_place
            THEN ILocFrom(SetItem(df_, "diff", diff), middle_index)
            ELSE second_half

\* SelectClosest with idxmin giving no label, and the lookup an empty row,
\* on an empty second half instead of raising.
SelectClosestEmptyRow(second1, work1) ==
    IF NRows(second1) = 0
    THEN Returned(-1, [c \in {} |-> 0])
    ELSE Returned(IdxMin(second1, "diff"),
                  Drop(Loc(work1, IdxMin(second1, "diff")), "diff"))

\* Lines 70-76: idxmin over the slice's "diff" column (ValueError when the
\* slice has no rows), the row of that label in the local df, "diff"
\* dropped.
SelectClosest(second1, work1) ==
    IF NRows(second1) = 0
    THEN Raised("ValueError")
    ELSE LET label == IdxMin(second1, "diff")
             closest_frame == Drop(Loc(work1, label), "diff")
         IN Returned(label, closest_frame)

\* _get_frame_closest_to_average: the caller's frame after the call and the
\* call's outcome.  in_place tells whether the pandas build assigns an
\* existing column in place (pandas before 1.5) or replaces it.
GetFrameClosestToAverage(df_, quantity, use_second_half, in_place) ==
    LET middle_index == NRows(df_) \div 2
        second_half  == ILocFrom(df_, middle_index)
        col          == QUANTITIES2COLS[quantity]
        work         == WorkingFrame(df_, second_half, use_second_half)
    IN IF col \notin Columns(work)
       THEN [df |-> df_, outcome |-> Raised("KeyError")]
       ELSE
         LET mean_value == MeanValue(df_, second_half, use_second_half, col)
             diff       == AbsDiff(work.cols[col], mean_value)
             caller1    == CallerAfterSetDiff(df_, middle_index,
                                              use_second_half, diff, in_place)
             second1    == SecondHalfAfterSetDiff(df_, middle_index,
                                              use_second_half, diff, in_place)
             work1      == WorkingFrame(caller1, second1, use_second_half)
         IN IF "diff" \notin Columns(second1)
            THEN [df |-> caller1, outcome |-> Raised("KeyError")]
            ELSE [df |-> caller1, outcome |-> SelectClosest(second1, work1)]

\* find_frame: the if / elif chain over the method names; a name matching
\* no branch reaches "return closest_frame" with the local unassigned.
FindFrameResult(df_, m, in_place) ==
    IF m = "closest_to_mean_temperature"
    THEN GetFrameClosestToAverage(df_, "temperature", FALSE, in_place)
    ELSE IF m = "closest_to_mean_temperature_second_half"
    THEN GetFrameClosestToAverage(df_, "temperature", TRUE, in_place)
    ELSE IF m = "closest_to_mean_density"
    THEN GetFrameClosestToAverage(df_, "density", FALSE, in_place)
    ELSE IF m = "closest_to_mean_density_second_half"
    THEN GetFrameClosestToAverage(df_, "density", TRUE, in_place)
    ELSE IF m = "closest_to_mean_volume"
    THEN GetFrameClosestToAverage(df_, "box_volume", FALSE, in_place)
    ELSE IF m = "closest_to_mean_volume_second_half"
    THEN GetFrameClosestToAverage(df_, "box_volume", TRUE, in_place)
    ELSE [df |-> df_, outcome |-> Raised("UnboundLocalError")]

------------------------------------------------------------------------------
(* The frames and method names the calls are made with *)

\* execs/openmmwrap_find_frame.py, m_choices
SupportedMethods ==
    {"closest_to_mean_temperature",
     "closest_to_mean_temperature_second_half",
     "closest_to_mean_density",
     "closest_to_mean_density_second_half",
     "closest_to_mean_volume",
     "closest_to_mean_volume_second_half"}

\* Method names find_frame has no branch for (--method takes any string).
OtherMethods == {"closest_to_mean_potential_energy"}

Methods == SupportedMethods \cup OtherMethods

RangeIndex(n) == [i \in 1 .. n |-> i - 1]

Reverse(s) == [i \in 1 .. Len(s) |-> s[Len(s) + 1 - i]]

\* A frame as load_state_data returns it for a run in a periodic box.  The
\* density column is drawn as the temperature column reversed, so that both
\* range over every sequence while the frames stay few, and the volume
\* falls as the density rises.
BoxFrame(temperature) ==
    LET density == Reverse(temperature)
    IN [index |-> RangeIndex(Len(temperature)),
        cols  |-> [c \in {"Step", "Temperature (K)", "Box Volume (nm^3)",
                          "Density (g/mL)"} |->
                      CASE c = "Step" -> RangeIndex(Len(temperature))
                        [] c = "Temperature (K)" -> temperature
                        [] c = "Density (g/mL)" -> density
                        [] OTHER ->
                             [i \in 1 .. Len(density) |-> 2 - density[i]]]]

\* A frame of a run that reports neither volume nor density.
PlainFrame(temperature) ==
    [index |-> RangeIndex(Len(temperature)),
     cols  |-> [c \in {"Step", "Temperature (K)"} |->
                   IF c = "Step" THEN RangeIndex(Len(temperature))
                   ELSE temperature]]

\* The series of the end-to-end scenario: steps 0..9.
ExampleFrame == PlainFrame(<<10, 12, 11, 13, 9, 14, 10, 13, 12, 11>>)

SeqsUpTo(n) == UNION {[1 .. k -> Vals] : k \in 0 .. n}

InitialFrames ==
    {ExampleFrame}
    \cup {PlainFrame(t) : t \in SeqsUpTo(MaxLen)}
    \cup {BoxFrame(t) : t \in SeqsUpTo(MaxLen)}

------------------------------------------------------------------------------
(* The state machine: one series object, called on repeatedly *)

VARIABLES
    df,       \* the caller's data frame
    entry,    \* the caller's data frame as it was when the last call began
    method,   \* the method name of the last call, "none" before the first
    outcome,  \* what the last call returned or raised
    inplace,  \* the pandas build assigns an existing column in place
    threads,  \* concurrent find_frame calls: each one's position and locals
    heap,     \* the objects (mappings) of the configuration code
    roots,    \* the names the configuration code holds, and its progress
    pc,       \* the position of the routine or command that is running
    events,   \* what the routine or command has done so far, in order
    args      \* the arguments the routine or command was called with

vars ==
    <<df, entry, method, outcome, inplace, threads, heap, roots, pc, events,
      args>>

\* The two call sites that call find_frame concurrently.
Threads == {"t1", "t2"}

IdleThread ==
    [pc |-> "idle", method |-> "none",
     second_half |-> [index |-> <<>>, cols |-> [c \in {} |-> <<>>]],
     view |-> FALSE,
     outcome |-> [kind |-> "none", exc |-> "none", name |-> -1,
                  row |-> [c \in {} |-> 0]]]

\* No concurrent call is under way.
NoThreads == threads = [t \in Threads |-> IdleThread]

\* The configuration code is not in use.
NoConfig == heap = <<>> /\ roots = <<>>

\* No routine or command with stages is running.
NoArgs == args = <<>>

NoProcess == pc = "none" /\ events = <<>> /\ NoArgs

NoCall == [kind |-> "none", exc |-> "none", name |-> -1,
           row |-> [c \in {} |-> 0]]

Init ==
    /\ df \in InitialFrames
    /\ entry = df
    /\ method = "none"
    /\ outcome = NoCall
    /\ inplace \in BOOLEAN
    /\ NoThreads
    /\ NoConfig
    /\ NoProcess

\* One call find_frame(df = df, method = m).
FindFrame(m) ==
    \E r \in {FindFrameResult(df, m, inplace)} :
       /\ df' = r.df
       /\ entry' = df
       /\ method' = m
       /\ outcome' = r.outcome
       /\ UNCHANGED <<inplace, threads, heap, roots, pc, events, args>>

Next == \E m \in Methods : FindFrame(m)

Spec == Init /\ [][Next]_vars

------------------------------------------------------------------------------
(* What the frame selector is specified to do, stated on the frame the last *)
(* call was given (entry) and on its outcome.                               *)

WholeMethods ==
    {"closest_to_mean_temperature", "closest_to_mean_density",
     "closest_to_mean_volume"}

SecondHalfMethods == SupportedMethods \ WholeMethods

\* The column a supported method is about.
TargetColumn(m) ==
    CASE m \in {"closest_to_mean_temperature",
                "closest_to_mean_temperature_second_half"} -> "Temperature (K)"
      [] m \in {"closest_to_mean_density",
                "closest_to_mean_density_second_half"} -> "Density (g/mL)"
      [] OTHER -> "Box Volume (nm^3)"

\* The last call was find_frame(entry, m) for a supported m, on a non-empty
\* series that has m's column.
CalledOnSeries(m) ==
    /\ method = m
    /\ m \in SupportedMethods
    /\ NRows(entry) > 0
    /\ TargetColumn(m) \in Columns(entry)

\* Positions (from 1) of the second half, rows [len // 2, len).
Pool(frame) == (NRows(frame) \div 2 + 1) .. NRows(frame)

\* Positions the mean of method m is taken over.
MeanRange(frame, m) ==
    IF m \in SecondHalfMethods THEN Pool(frame) ELSE 1 .. NRows(frame)

\* |v[i] - mean of v over the positions lo..hi|, times the number of those
\* positions.
Deviation(v, i, range) ==
    LET lo == CHOOSE x \in range : \A y \in range : x <= y
        hi == CHOOSE x \in range : \A y \in range : x >= y
    IN Abs(v[i] * (hi - lo + 1) - SumSeq(SubSeq(v, lo, hi)))

\* Position i of the pool is as close to the mean of method m as any.
Closest(frame, m, i) ==
    LET v == frame.cols[TargetColumn(m)]
    IN /\ i \in Pool(frame)
       /\ \A j \in Pool(frame) :
             Deviation(v, i, MeanRange(frame, m))
                 <= Deviation(v, j, MeanRange(frame, m))

\* The outcome is the row at position i of the frame: its label, and the
\* frame's value in every column but the helper column.
IsRowAt(frame, i) ==
    /\ outcome.kind = "row"
    /\ outcome.name = frame.index[i]
    /\ \A c \in Columns(frame) \ {"diff"} :
          c \in DOMAIN outcome.row /\ outcome.row[c] = frame.cols[c][i]

\* C1: for every non-empty series with the quantity's column, find_frame
\* with use_second_half = false returns (and does not fail) the row that is
\* closest to the mean of the ENTIRE series among the rows of the second
\* half.
C1_WholeMeanSecondHalfPool ==
    \A m \in WholeMethods :
        CalledOnSeries(m) =>
            \E i \in Pool(entry) : Closest(entry, m, i) /\ IsRowAt(entry, i)

\* C2: for every non-empty series with the quantity's column, find_frame
\* with use_second_half = true returns the row of the second half closest
\* to the mean of the second half; no row of the first half is returned or
\* enters the mean.
C2_SecondHalfMeanAndPool ==
    \A m \in SecondHalfMethods :
        CalledOnSeries(m) =>
            \E i \in Pool(entry) : Closest(entry, m, i) /\ IsRowAt(entry, i)

\* C2's case: a second-half call returned a row although another row of the
\* second half is strictly closer to the mean of the entire series, and a
\* row of the first half is closer to the second half's mean than any row
\* of the second half.
C2_Witness ==
    \E m \in SecondHalfMethods :
        /\ CalledOnSeries(m)
        /\ outcome.kind = "row"
        /\ LET v == entry.cols[TargetColumn(m)]
               i == PosOf(entry, outcome.name)
           IN /\ \E j \in Pool(entry) :
                     Deviation(v, j, 1 .. NRows(entry))
                         < Deviation(v, i, 1 .. NRows(entry))
              /\ \E k \in 1 .. (NRows(entry) \div 2) :
                     Deviation(v, k, Pool(entry))
                         < Deviation(v, i, Pool(entry))

\* C3: on the series with steps 0..9 and temperature
\* 10,12,11,13,9,14,10,13,12,11, closest_to_mean_temperature returns the row
\* at step 9, whose temperature is 11.
C3_ExampleReturnsStep9 ==
    (entry = ExampleFrame /\ method = "closest_to_mean_temperature") =>
        /\ outcome.kind = "row"
        /\ outcome.row = [c \in {"Step", "Temperature (K)"} |->
                             IF c = "Step" THEN 9 ELSE 11]

\* Positions of the pool at the minimum distance from the mean of method m.
Minimisers(frame, m) == {i \in Pool(frame) : Closest(frame, m, i)}

\* C4: when two or more rows of the search pool are at the minimum distance
\* from the mean, find_frame returns the one with the lowest step index.
C4_TieLowestStep ==
    \A m \in SupportedMethods :
        (CalledOnSeries(m) /\ Cardinality(Minimisers(entry, m)) >= 2) =>
            \E i \in Minimisers(entry, m) :
                /\ \A j \in Minimisers(entry, m) : i <= j
                /\ IsRowAt(entry, i)

\* C5: for every non-empty series and each of the six supported methods
\* whose column is present, find_frame returns a row whose index is one of
\* the series' row indices.
C5_ReturnsRowInRange ==
    \A m \in SupportedMethods :
        CalledOnSeries(m) =>
            /\ outcome.kind = "row"
            /\ outcome.name \in 0 .. (NRows(entry) - 1)

\* C6: for a series of exactly one row find_frame returns that row, with
\* use_second_half true and false alike.
C6_SingleRow ==
    \A m \in SupportedMethods :
        (CalledOnSeries(m) /\ NRows(entry) = 1) => IsRowAt(entry, 1)

\* C7: a call of find_frame that follows a call with the same method on the
\* same (non-empty) series object yields the same row as that call: the
\* first call leaves nothing behind that changes the second one's outcome.
C7_SecondCallSame ==
    [][(CalledOnSeries(method) /\ method' = method) =>
           outcome' = outcome]_vars

\* C8: find_frame never mutates the caller's series: after any call it has
\* the rows, the columns (no added "diff") and the values it had before.
C8_SeriesUnchanged == df = entry

\* C9: the returned row has exactly the columns of the input series, with
\* the input's values for that row, and never the helper column "diff".
C9_RowHasInputColumns ==
    outcome.kind = "row" =>
        /\ DOMAIN outcome.row = Columns(entry)
        /\ "diff" \notin DOMAIN outcome.row
        /\ \A c \in Columns(entry) :
              outcome.row[c] = entry.cols[c][PosOf(entry, outcome.name)]

\* C10: find_frame called with a method name that is none of the six fails
\* with a dedicated UnsupportedMethod error, returns no row and leaves the
\* series as it was.
C10_UnsupportedMethodError ==
    (method \notin SupportedMethods /\ method # "none") =>
        /\ outcome.kind = "raise"
        /\ outcome.exc = "UnsupportedMethod"
        /\ df = entry

------------------------------------------------------------------------------
(* Two find_frame calls running concurrently on one series object            *)
(* (md/frameselection.py).  A call takes three steps: the slicing of lines    *)
(* 47-51, the mean and the assignment of "diff" of lines 54-67, the           *)
(* selection of lines 70-76.  A slice is a view: its "diff" column, when the  *)
(* frame had one at the time of slicing, shows later assignments to the       *)
(* frame's column exactly when the pandas build assigns in place.             *)

\* Longest series the concurrent calls are made on.
MaxConcLen == 2

ConcFrames ==
    {PlainFrame(t) : t \in SeqsUpTo(MaxConcLen)}
    \cup {BoxFrame(t) : t \in SeqsUpTo(MaxConcLen)}

\* find_frame's dispatch: the quantity and the flag a method name stands for.
QuantityOf(m) ==
    CASE m \in {"closest_to_mean_temperature",
                "closest_to_mean_temperature_second_half"} -> "temperature"
      [] m \in {"closest_to_mean_density",
                "closest_to_mean_density_second_half"} -> "density"
      [] OTHER -> "box_volume"

UseSecondHalf(m) ==
    m \in {"closest_to_mean_temperature_second_half",
           "closest_to_mean_density_second_half",
           "closest_to_mean_volume_second_half"}

\* The slice a thread holds, as it reads now: a "diff" column that is a view
\* shows the frame's present values from middle_index on.
SliceNow(th) ==
    IF th.view
    THEN SetItem(th.second_half, "diff",
                 SubSeq(df.cols["diff"], NRows(df) \div 2 + 1, NRows(df)))
    ELSE th.second_half

InitConc ==
    /\ df \in ConcFrames
    /\ entry = df
    /\ method = "none"
    /\ outcome = NoCall
    /\ inplace \in BOOLEAN
    /\ NoThreads
    /\ NoConfig
    /\ NoProcess

\* Lines 47-51 of a call find_frame(df, m): second_half is cut from the
\* frame as it is now.
Slice(t, m) ==
    /\ threads[t].pc = "idle"
    /\ threads' = [threads EXCEPT ![t] =
           [pc |-> "sliced", method |-> m,
            second_half |-> ILocFrom(df, NRows(df) \div 2),
            view |-> inplace /\ "diff" \in Columns(df),
            outcome |-> NoCall]]
    /\ UNCHANGED <<df, entry, method, outcome, inplace, heap, roots, pc, events,
                   args>>

\* Lines 54-67: the column lookup, the mean, and df["diff"] = ... on the
\* frame the local name df refers to.
SetDiff(t) ==
    LET th  == threads[t]
        use == UseSecondHalf(th.method)
        col == QUANTITIES2COLS[QuantityOf(th.method)]
        cur == SliceNow(th)
        work == WorkingFrame(df, cur, use)
    IN /\ th.pc = "sliced"
       /\ IF col \notin Columns(work)
          THEN /\ threads' = [threads EXCEPT ![t].pc = "done",
                                            ![t].outcome = Raised("KeyError")]
               /\ df' = df
          ELSE LET diff == AbsDiff(work.cols[col],
                                   MeanValue(df, cur, use, col))
               IN IF ~ use
                  THEN /\ df' = SetItem(df, "diff", diff)
                       /\ threads' = [threads EXCEPT ![t].pc = "assigned"]
                  ELSE IF th.view
                  THEN /\ df' = SetItem(df, "diff",
                                  SubSeq(df.cols["diff"], 1, NRows(df) \div 2)
                                      \o diff)
                       /\ threads' = [threads EXCEPT ![t].pc = "assigned"]
                  ELSE /\ df' = df
                       /\ threads' = [threads EXCEPT
                              ![t].pc = "assigned",
                              ![t].second_half = SetItem(cur, "diff", diff)]
       /\ UNCHANGED <<entry, method, outcome, inplace, heap, roots, pc,
                      events, args>>

\* Lines 70-76: second_half["diff"].idxmin(), df.loc[...], drop, return.
Select(t) ==
    LET th  == threads[t]
        cur == SliceNow(th)
    IN /\ th.pc = "assigned"
       /\ threads' = [threads EXCEPT
              ![t].pc = "done",
              ![t].outcome =
                  IF "diff" \notin Columns(cur)
                  THEN Raised("KeyError")
                  ELSE SelectClosest(cur,
                           WorkingFrame(df, cur, UseSecondHalf(th.method)))]
       /\ UNCHANGED <<df, entry, method, outcome, inplace, heap, roots, pc,
                      events, args>>

NextConc ==
    \E t \in Threads :
        \/ \E m \in SupportedMethods : Slice(t, m)
        \/ SetDiff(t)
        \/ Select(t)

SpecConc == InitConc /\ [][NextConc]_vars

\* C12: two find_frame calls running concurrently on the same series object
\* each return what the same call returns when run alone on that series,
\* and the series is unchanged once both have finished.
C12_ConcurrentCallsIndependent ==
    (NRows(entry) > 0 /\ \A t \in Threads : threads[t].pc = "done") =>
        /\ \A t \in Threads :
              threads[t].outcome =
                  FindFrameResult(entry, threads[t].method, inplace).outcome
        /\ df = entry

\* A call that runs its three steps with no other call under way ends as
\* find_frame does.
ConcAloneAgrees ==
    \A t \in Threads :
        (threads[t].pc = "done"
            /\ \A u \in Threads \ {t} : threads[u].pc = "idle") =>
            /\ threads[t].outcome =
                   FindFrameResult(entry, threads[t].method, inplace).outcome
            /\ df = FindFrameResult(entry, threads[t].method, inplace).df

------------------------------------------------------------------------------
(* Nested mappings as Python holds them (io/_util.py, io/configio.py).       *)
(* A dict or a list is an object on the heap and is known by its address, its *)
(* index in heap; a value is an immutable scalar or a reference to an object. *)
(* A dict keeps its keys in insertion order.                                  *)

IntV(n) == [t |-> "int", v |-> n]

RefV(a) == [t |-> "ref", v |-> a]

\* The strings that occur as scalars; a string scalar holds its place in
\* the table.
StringTable == <<"lineplots", "barplots">>

StrV(s) ==
    [t |-> "str", v |-> CHOOSE i \in 1 .. Len(StringTable) : StringTable[i] = s]

StrOf(x) == StringTable[x.v]

DictObj(ks, f) == [kind |-> "dict", keys |-> ks, val |-> f, items |-> <<>>]

ListObj(s) ==
    [kind |-> "list", keys |-> <<>>, val |-> [k \in {} |-> IntV(0)],
     items |-> s]

Range(s) == {s[i] : i \in 1 .. Len(s)}

\* An exception a statement raises is the newest object: the statements
\* after it do not run, and the callers hand it on.
ExcObj(exc) ==
    [kind |-> exc, keys |-> <<>>, val |-> [k \in {} |-> IntV(0)],
     items |-> <<>>]

Raise(h, exc) == Append(h, ExcObj(exc))

Raising(h) == h # <<>> /\ h[Len(h)].kind \notin {"dict", "list"}

ExcOf(h) == h[Len(h)].kind

\* What a call that raised hands back in place of a value.
NoValue(h) == [h |-> h, x |-> IntV(0)]

\* One statement after another: the value of the first, computed once, is
\* what the rest goes on with.
Bind(first, Rest(_)) == CHOOSE out \in {Rest(r) : r \in {first}} : TRUE

\* isinstance(x, dict)
IsDict(h, x) == x.t = "ref" /\ h[x.v].kind = "dict"

\* A dict whose assignment moves an existing key to the end.
SetKeyLast(h, a, key, value) ==
    LET d == h[a]
        Other(k) == k # key
    IN [h EXCEPT ![a] =
           DictObj(Append(SelectSeq(d.keys, Other), key),
                   [k \in Range(d.keys) \cup {key} |->
                       IF k = key THEN value ELSE d.val[k]])]

\* d[key] = value: an existing key keeps its position, a new key goes last.
SetKey(h, a, key, value) ==
    LET d == h[a]
    IN [h EXCEPT ![a] =
           IF key \in Range(d.keys)
           THEN DictObj(d.keys, [d.val EXCEPT ![key] = value])
           ELSE DictObj(Append(d.keys, key), d.val @@ (key :> value))]

\* The printed form of a value: scalars, lists and dicts written out in key
\* order, with no addresses left.
IntT(n) ==
    [t |-> "int", v |-> n, items |-> <<>>, keys |-> <<>>,
     val |-> [k \in {} |-> 0]]

StrT(s) ==
    [t |-> "str", v |-> StrV(s).v, items |-> <<>>, keys |-> <<>>,
     val |-> [k \in {} |-> 0]]

ListT(s) ==
    [t |-> "list", v |-> 0, items |-> s, keys |-> <<>>,
     val |-> [k \in {} |-> 0]]

DictT(ks, f) == [t |-> "dict", v |-> 0, items |-> <<>>, keys |-> ks, val |-> f]

RECURSIVE TreeOf(_, _)
TreeOf(h, x) ==
    IF x.t = "int"
    THEN IntT(x.v)
    ELSE IF x.t = "str"
    THEN StrT(StrOf(x))
    ELSE IF h[x.v].kind = "list"
    THEN ListT(h[x.v].items)
    ELSE DictT(h[x.v].keys,
               [k \in Range(h[x.v].keys) |-> TreeOf(h, h[x.v].val[k])])

\* The objects a value reaches, itself included.
RECURSIVE Reach(_, _)
Reach(h, x) ==
    IF x.t # "ref"
    THEN {}
    ELSE {x.v} \cup UNION {Reach(h, h[x.v].val[k]) : k \in Range(h[x.v].keys)}

\* yaml.safe_load: the objects of a document, allocated on the heap.  The
\* result is the new heap and the value that stands for the document.
RECURSIVE Load(_, _)
RECURSIVE LoadItems(_, _, _, _)
LoadItems(h, tree, i, f) ==
    IF i > Len(tree.keys)
    THEN [h |-> Append(h, DictObj(tree.keys, f)), x |-> RefV(Len(h) + 1)]
    ELSE Bind(Load(h, tree.val[tree.keys[i]]),
              LAMBDA r : LoadItems(r.h, tree, i + 1,
                                   f @@ (tree.keys[i] :> r.x)))

Load(h, tree) ==
    IF tree.t = "int"
    THEN [h |-> h, x |-> IntV(tree.v)]
    ELSE IF tree.t = "str"
    THEN [h |-> h, x |-> StrV(StrOf(tree))]
    ELSE IF tree.t = "list"
    THEN [h |-> Append(h, ListObj(tree.items)), x |-> RefV(Len(h) + 1)]
    ELSE LoadItems(h, tree, 1, [k \in {} |-> IntV(0)])

\* A copy that is the object itself.
DeepCopyNone(h, x) == [h |-> h, x |-> x]

\* copy.deepcopy: a fresh object for every dict and list reached, each
\* copied once; the copies hold the scalars of the originals and refer to
\* the copies of the objects the originals refer to.
DeepCopy(h, x) ==
    IF x.t # "ref"
    THEN [h |-> h, x |-> x]
    ELSE LET reached == Reach(h, x)
             Rank(a) == Cardinality({b \in reached : b <= a})
             Copied(v) == IF v.t = "ref" THEN RefV(Len(h) + Rank(v.v)) ELSE v
             CopyOf(a) ==
                 IF h[a].kind = "list"
                 THEN ListObj(h[a].items)
                 ELSE DictObj(h[a].keys,
                              [k \in Range(h[a].keys) |-> Copied(h[a].val[k])])
         IN [h |-> h \o [i \in 1 .. Cardinality(reached) |->
                            CopyOf(CHOOSE a \in reached : Rank(a) = i)],
             x |-> Copied(x)]

------------------------------------------------------------------------------
(* recursive_merge (io/_util.py, lines 18-71).                               *)

\* Lines 49-50: both values at the key are dicts.
BothDicts(h, value, other) == IsDict(h, value) /\ IsDict(h, other)

\* An assignment that leaves a key d2 has as d2 has it.
AssignPrimaryKeepSecondary(h, merged, key, value) ==
    IF key \in Range(h[merged].keys) THEN h ELSE SetKey(h, merged, key, value)

\* An assignment that lets a mapping of d2 stand against a non-mapping of d1.
AssignPrimaryMappingWins(h, merged, key, value) ==
    IF /\ key \in Range(h[merged].keys)
       /\ IsDict(h, h[merged].val[key])
       /\ ~ IsDict(h, value)
    THEN h
    ELSE SetKey(h, merged, key, value)

\* An assignment that takes effect only at a key d2 has as well.
AssignPrimaryOnlyShared(h, merged, key, value) ==
    IF key \in Range(h[merged].keys) THEN SetKey(h, merged, key, value) ELSE h

\* Lines 62 and 68: merged[key] = value, the very object d1 holds.
AssignPrimary(h, merged, key, value) == SetKey(h, merged, key, value)

\* Line 39 then the loop of lines 42-68 from d1's i-th key on; line 71.
RECURSIVE RecursiveMerge(_, _, _)
RECURSIVE MergeItems(_, _, _, _, _)
MergeItems(h, d1, d2, merged, i) ==
    IF i > Len(h[d1].keys)
    THEN [h |-> h, x |-> RefV(merged)]
    ELSE LET key   == h[d1].keys[i]
             value == h[d1].val[key]
         IN IF key \in Range(h[d2].keys)
            THEN IF BothDicts(h, value, h[d2].val[key])
                 THEN Bind(RecursiveMerge(h, value.v, h[d2].val[key].v),
                           LAMBDA r :
                               Bind(SetKey(r.h, merged, key, r.x),
                                    LAMBDA h1 :
                                        MergeItems(h1, d1, d2, merged, i + 1)))
                 ELSE Bind(AssignPrimary(h, merged, key, value),
                           LAMBDA h1 : MergeItems(h1, d1, d2, merged, i + 1))
            ELSE Bind(AssignPrimary(h, merged, key, value),
                      LAMBDA h1 : MergeItems(h1, d1, d2, merged, i + 1))

\* A d1 that is no dict has no items() (line 42); a d2 that is no dict but a
\* list holds none of d1's keys and takes no assignment by key (line 68).
RecursiveMerge(h, d1, d2) ==
    Bind(DeepCopy(h, RefV(d2)),
         LAMBDA c :
             CASE h[d1].kind # "dict" -> NoValue(Raise(c.h, "AttributeError"))
               [] h[d1].kind = "dict" /\ h[d2].kind # "dict" ->
                      IF h[d1].keys = <<>>
                      THEN c
                      ELSE NoValue(Raise(c.h, "TypeError"))
               [] OTHER -> MergeItems(c.h, d1, d2, c.x.v, 1))

\* The mappings recursive_merge is called on: documents over two keys, the
\* keys in either order, nested to any depth, bounded by the number of
\* key-value pairs the two hold together.  d1's scalars and lists carry 1,
\* d2's carry 2, so that a value of the result tells where it came from.
MaxEntries == 4

MergeKeys == {"a", "b"}

NoItems == [k \in {} |-> 0]

Leaves(n) == {IntT(n), ListT(<<n>>)}

RECURSIVE DictsOfSize(_, _)
ValuesOfWeight(n, leaves) ==
    (IF n = 0 THEN leaves ELSE {}) \cup DictsOfSize(n, leaves)

DictsOfSize(n, leaves) ==
    (IF n = 0 THEN {DictT(<<>>, NoItems)} ELSE {})
    \cup (IF n >= 1
          THEN {DictT(<<k>>, k :> c) :
                   k \in MergeKeys, c \in ValuesOfWeight(n - 1, leaves)}
          ELSE {})
    \cup (IF n >= 2
          THEN UNION {{DictT(ks, ("a" :> ca) @@ ("b" :> cb)) :
                          ks \in {<<"a", "b">>, <<"b", "a">>},
                          ca \in ValuesOfWeight(i, leaves),
                          cb \in ValuesOfWeight(n - 2 - i, leaves)} :
                      i \in 0 .. n - 2}
          ELSE {})

MergeInputs ==
    UNION {UNION {DictsOfSize(i, Leaves(1)) \X DictsOfSize(j, Leaves(2)) :
                     j \in 0 .. MaxEntries - i} :
              i \in 0 .. MaxEntries}

\* A name the caller holds: the object it refers to, what the object read
\* when the name was bound, and whether the caller has since written
\* through the name.
Root(name, x, h) ==
    [name |-> name, addr |-> x.v, was |-> TreeOf(h, x), touched |-> FALSE]

NoFrame ==
    /\ df = PlainFrame(<<>>)
    /\ entry = df
    /\ method = "none"
    /\ outcome = NoCall
    /\ inplace = FALSE
    /\ NoThreads

InitMerge ==
    /\ NoFrame
    /\ NoProcess
    /\ \E p \in MergeInputs :
          LET r1 == Load(<<>>, p[1])
              r2 == Load(r1.h, p[2])
          IN /\ heap = r2.h
             /\ roots = <<Root("d1", r1.x, r2.h), Root("d2", r2.x, r2.h)>>

\* merged = recursive_merge(d1, d2)
Merge ==
    /\ Len(roots) = 2
    /\ \E r \in {RecursiveMerge(heap, roots[1].addr, roots[2].addr)} :
          /\ heap' = r.h
          /\ roots' = Append(roots, Root("merged", r.x, r.h))
    /\ UNCHANGED <<df, entry, method, outcome, inplace, threads, pc,
                   events, args>>

\* The caller's later write into a nested dict (d["z"] = 9) or list
\* (l.append(9)) reached through one of its names.
Write(h, a) ==
    IF h[a].kind = "dict"
    THEN SetKey(h, a, "z", IntV(9))
    ELSE [h EXCEPT ![a] = ListObj(Append(h[a].items, 9))]

MutateNested(i) ==
    /\ Len(roots) = 3
    /\ \A j \in 1 .. 3 : ~ roots[j].touched
    /\ \E a \in Reach(heap, RefV(roots[i].addr)) \ {roots[i].addr} :
          heap' = Write(heap, a)
    /\ roots' = [roots EXCEPT ![i].touched = TRUE]
    /\ UNCHANGED <<df, entry, method, outcome, inplace, threads, pc,
                   events, args>>

NextMerge ==
    \/ Merge
    \/ \E i \in 1 .. 3 : MutateNested(i)

SpecMerge == InitMerge /\ [][NextMerge]_vars

------------------------------------------------------------------------------
(* Claims about recursive_merge, under SpecMerge.                            *)

Merged == Len(roots) = 3

D1 == roots[1].was

D2 == roots[2].was

Result == roots[3].was

Has(t, k) == k \in Range(t.keys)

IsMapping(t) == t.t = "dict"

\* Python's == on nested values: dicts compare without regard to key order.
RECURSIVE SameValue(_, _)
SameValue(x, y) ==
    /\ x.t = y.t
    /\ x.v = y.v
    /\ x.items = y.items
    /\ Range(x.keys) = Range(y.keys)
    /\ \A k \in Range(x.keys) : SameValue(x.val[k], y.val[k])

\* The reference left-biased deep merge of two mappings.
RECURSIVE LeftBiasedMerge(_, _)
LeftBiasedMerge(t1, t2) ==
    LET OnlyInFirst(k) == ~ Has(t2, k)
    IN DictT(t2.keys \o SelectSeq(t1.keys, OnlyInFirst),
             [k \in Range(t1.keys) \cup Range(t2.keys) |->
                 IF Has(t1, k) /\ Has(t2, k)
                 THEN IF IsMapping(t1.val[k]) /\ IsMapping(t2.val[k])
                      THEN LeftBiasedMerge(t1.val[k], t2.val[k])
                      ELSE t1.val[k]
                 ELSE IF Has(t1, k) THEN t1.val[k] ELSE t2.val[k]])

\* C13: for all nested mappings d1 and d2, recursive_merge(d1, d2) equals the
\* reference left-biased deep merge (key set the union of the key sets, d2's
\* value at a key only d2 has, d1's value at a key only d1 has, the recursive
\* merge where both hold mappings, d1's value otherwise); in particular
\* merge({}, x) = x and merge(x, {}) = x.
C13_MergeIsLeftBiasedDeepMerge ==
    Merged =>
        /\ SameValue(Result, LeftBiasedMerge(D1, D2))
        /\ Range(Result.keys) = Range(D1.keys) \cup Range(D2.keys)
        /\ (D1.keys = <<>> => SameValue(Result, D2))
        /\ (D2.keys = <<>> => SameValue(Result, D1))

\* A merge in which, below a key both inputs hold as mappings, each input
\* contributes a key the other lacks.
C13_Witness ==
    /\ Merged
    /\ \E k \in MergeKeys :
          /\ Has(D1, k) /\ Has(D2, k)
          /\ IsMapping(D1.val[k]) /\ IsMapping(D2.val[k])
          /\ \E i, j \in MergeKeys :
                /\ Has(D1.val[k], i) /\ ~ Has(D2.val[k], i)
                /\ Has(D2.val[k], j) /\ ~ Has(D1.val[k], j)
                /\ Has(Result.val[k], i) /\ Has(Result.val[k], j)

\* At every level merged recursively, a key holding a mapping on one side and
\* a non-mapping on the other carries exactly d1's value.
RECURSIVE PrimaryWhole(_, _, _)
PrimaryWhole(t1, t2, m) ==
    \A k \in Range(t1.keys) \cap Range(t2.keys) :
        IF IsMapping(t1.val[k]) /\ IsMapping(t2.val[k])
        THEN PrimaryWhole(t1.val[k], t2.val[k], m.val[k])
        ELSE (IsMapping(t1.val[k]) # IsMapping(t2.val[k]))
                 => m.val[k] = t1.val[k]

\* C14: when a key holds a mapping in one input and a non-mapping in the
\* other, in either direction, the result holds d1's value whole at that key
\* and nothing of d2's value at or below the key survives.
C14_MappingAgainstNonMapping ==
    Merged => PrimaryWhole(D1, D2, Result)

\* Both directions in one merge: d1's mapping against d2's non-mapping at one
\* key, d1's non-mapping against d2's mapping at the other.
C14_Witness ==
    /\ Merged
    /\ \E k \in MergeKeys :
          /\ Has(D1, k) /\ Has(D2, k)
          /\ IsMapping(D1.val[k]) /\ ~ IsMapping(D2.val[k])
          /\ Result.val[k] = D1.val[k]
    /\ \E k \in MergeKeys :
          /\ Has(D1, k) /\ Has(D2, k)
          /\ ~ IsMapping(D1.val[k]) /\ IsMapping(D2.val[k])
          /\ Result.val[k] = D1.val[k]

\* C15: recursive_merge mutates neither input: every object that exists when
\* the call is made, so d1 and d2 at every nesting depth, reads after the
\* call as it did before.
C15_InputsNotMutated ==
    [][(Len(roots) = 2 /\ Len(roots') = 3) =>
           /\ \A a \in 1 .. Len(heap) : heap'[a] = heap[a]
           /\ TreeOf(heap', RefV(roots[1].addr)) = roots[1].was
           /\ TreeOf(heap', RefV(roots[2].addr)) = roots[2].was]_vars

\* A merge of inputs that share a key, a nested one included, has returned.
C15_Witness ==
    /\ Merged
    /\ \E k \in MergeKeys :
          /\ Has(D1, k) /\ Has(D2, k)
          /\ IsMapping(D1.val[k]) /\ IsMapping(D2.val[k])
          /\ \E j \in MergeKeys : Has(D1.val[k], j) /\ Has(D2.val[k], j)

\* C16: the mapping recursive_merge returns shares no nested mapping or list
\* with d1 or d2: a later write into a nested value reached through one of
\* the three names leaves what the other two names read unchanged.
C16_NoSharedSubStructure ==
    Merged =>
        \A j \in 1 .. 3 :
            ~ roots[j].touched =>
                TreeOf(heap, RefV(roots[j].addr)) = roots[j].was

\* The key order the claim states, at every level merged recursively.
RECURSIVE OrderAsStated(_, _, _)
OrderAsStated(t1, t2, m) ==
    LET OnlyInFirst(k) == ~ Has(t2, k)
    IN /\ m.keys = t2.keys \o SelectSeq(t1.keys, OnlyInFirst)
       /\ \A k \in Range(t1.keys) \cap Range(t2.keys) :
             (IsMapping(t1.val[k]) /\ IsMapping(t2.val[k]))
                 => OrderAsStated(t1.val[k], t2.val[k], m.val[k])

\* C17: the key order of recursive_merge(d1, d2) is all keys of d2 in d2's
\* order, overridden ones included, then the keys only d1 has in d1's order,
\* at every nesting level that is merged recursively.
C17_KeyOrder ==
    Merged => OrderAsStated(D1, D2, Result)

\* d2 lists two keys in the order opposite to d1's and d1 overrides both; and
\* a merge where, one level down, d1 adds a key to those d2 has.
C17_Witness ==
    /\ Merged
    /\ \/ /\ Len(D1.keys) = 2 /\ Len(D2.keys) = 2
          /\ D1.keys # D2.keys
          /\ Result.keys = D2.keys
       \/ \E k \in MergeKeys :
             /\ Has(D1, k) /\ Has(D2, k)
             /\ IsMapping(D1.val[k]) /\ IsMapping(D2.val[k])
             /\ Len(Result.val[k].keys) = 2
             /\ Len(D1.val[k].keys) = 1 /\ Len(D2.val[k].keys) = 1

------------------------------------------------------------------------------
(* The section filters of the plotting configuration (io/configio.py,        *)
(* lines 141-275).                                                            *)

\* _get_config_output_section, OPTIONS_IGNORED
OutputOptionsIgnored == {"fname", "format", "bbox_extra_artists", "pil_kwargs"}

\* _get_config_title_section, OPTIONS_IGNORED
TitleOptionsIgnored ==
    {"clip_box", "clip_path", "figure", "path_effects", "text", "transform"}

\* _get_config_axis_section, OPTIONS_IGNORED_LABEL
LabelOptionsIgnored ==
    {"clip_box", "clip_path", "figure", "label", "path_effects", "text",
     "transform"}

\* _get_config_axis_section, OPTIONS_IGNORED_TICKLABELS
TicklabelsOptionsIgnored ==
    {"labels", "clip_box", "clip_path", "figure", "label", "path_effects",
     "text", "transform"}

\* _get_config_lineplot_section, OPTIONS_IGNORED
LineplotOptionsIgnored ==
    {"x", "y", "data", "agg_filter", "clip_box", "clip_path", "figure",
     "label", "path_effects", "picker", "transform", "xdata", "ydata"}

\* A comprehension that deletes the ignored keys from config itself.
KeepNotIgnoredInPlace(h, config, ignored) ==
    LET Kept(k) == k \notin ignored
        ks == SelectSeq(h[config].keys, Kept)
    IN [h |-> [h EXCEPT ![config] =
                   DictObj(ks, [k \in Range(ks) |-> h[config].val[k]])],
        x |-> RefV(config)]

\* {key : val for key, val in config.items() if key not in ignored}: a new
\* dict holding the kept keys in config's order, each with config's value.
\* A config that is no dict has no items().
KeepNotIgnored(h, config, ignored) ==
    LET Kept(k) == k \notin ignored
        ks == SelectSeq(h[config].keys, Kept)
    IN IF h[config].kind # "dict"
       THEN NoValue(Raise(h, "AttributeError"))
       ELSE [h |-> Append(h, DictObj(ks, [k \in Range(ks) |->
                                             h[config].val[k]])),
             x |-> RefV(Len(h) + 1)]

GetConfigOutputSection(h, config) ==
    KeepNotIgnored(h, config, OutputOptionsIgnored)

GetConfigTitleSection(h, config) ==
    KeepNotIgnored(h, config, TitleOptionsIgnored)

GetConfigLineplotSection(h, config) ==
    KeepNotIgnored(h, config, LineplotOptionsIgnored)

\* The sections the filters are called on: up to MaxSectionKeys distinct keys,
\* in any order, among the ignored options and three options that are kept
\* by every filter; the i-th key holds the value i.
MaxSectionKeys == 2

SectionKeys ==
    OutputOptionsIgnored \cup TitleOptionsIgnored \cup LineplotOptionsIgnored
        \cup {"dpi", "fontsize", "color"}

RECURSIVE KeySeqs(_)
KeySeqs(n) ==
    IF n = 0
    THEN {<<>>}
    ELSE LET shorter == KeySeqs(n - 1)
         IN shorter \cup
            {Append(s, k) : s \in {q \in shorter : Len(q) = n - 1},
                            k \in SectionKeys}

Sections ==
    {DictT(ks, [k \in Range(ks) |->
                   IntT(CHOOSE i \in 1 .. Len(ks) : ks[i] = k)]) :
        ks \in {q \in KeySeqs(MaxSectionKeys) :
                   \A i, j \in 1 .. Len(q) : q[i] = q[j] => i = j}}

InitFilter ==
    /\ NoFrame
    /\ NoProcess
    /\ \E t \in Sections :
          LET r == Load(<<>>, t)
          IN /\ heap = r.h
             /\ roots = <<Root("config", r.x, r.h)>>

\* config_updated = _get_config_output_section(config)
FilterOutput ==
    /\ Len(roots) = 1
    /\ \E r \in {GetConfigOutputSection(heap, roots[1].addr)} :
          /\ heap' = r.h
          /\ roots' = Append(roots, Root("output", r.x, r.h))
    /\ UNCHANGED <<df, entry, method, outcome, inplace, threads, pc,
                   events, args>>

\* config_updated = _get_config_title_section(config)
FilterTitle ==
    /\ Len(roots) = 1
    /\ \E r \in {GetConfigTitleSection(heap, roots[1].addr)} :
          /\ heap' = r.h
          /\ roots' = Append(roots, Root("title", r.x, r.h))
    /\ UNCHANGED <<df, entry, method, outcome, inplace, threads, pc,
                   events, args>>

\* config_updated = _get_config_lineplot_section(config)
FilterLineplot ==
    /\ Len(roots) = 1
    /\ \E r \in {GetConfigLineplotSection(heap, roots[1].addr)} :
          /\ heap' = r.h
          /\ roots' = Append(roots, Root("lineplot", r.x, r.h))
    /\ UNCHANGED <<df, entry, method, outcome, inplace, threads, pc,
                   events, args>>

NextFilter == FilterOutput \/ FilterTitle \/ FilterLineplot

SpecFilter == InitFilter /\ [][NextFilter]_vars

DenylistOf(section) ==
    CASE section = "output" -> OutputOptionsIgnored
      [] section = "title" -> TitleOptionsIgnored
      [] section = "lineplot" -> LineplotOptionsIgnored

\* C18: each section filter (output, title, lineplot) returns a new mapping
\* whose keys are exactly the input's keys outside that section's denylist,
\* each with its input value; a section without denylisted keys raises no
\* error, and the input mapping is unchanged.
C18_SectionFilter ==
    Len(roots) = 2 =>
        LET config == roots[1]
            result == roots[2]
        IN /\ result.addr # config.addr
           /\ Range(result.was.keys) =
                  Range(config.was.keys) \ DenylistOf(result.name)
           /\ \A k \in Range(result.was.keys) :
                 result.was.val[k] = config.was.val[k]
           /\ TreeOf(heap, RefV(config.addr)) = config.was

\* The title filter has dropped a denylisted key and kept another key.
C18_Witness ==
    /\ Len(roots) = 2
    /\ roots[2].name = "title"
    /\ Len(roots[1].was.keys) = 2
    /\ Len(roots[2].was.keys) = 1
    /\ Has(roots[1].was, "text")

------------------------------------------------------------------------------
(* Normalization of the plot sections (io/configio.py, lines 198-245 and     *)
(* 278-361).                                                                  *)

\* A copy of the axis section with nothing filtered.
GetConfigAxisSectionUnfiltered(h, config) == DeepCopy(h, RefV(config))

\* Lines 229-234 and 237-242: when config has the key, config_updated[key]
\* becomes the comprehension over config[key].
SetFilteredItem(h, config, config_updated, key, ignored) ==
    IF ~ Raising(h) /\ key \in Range(h[config].keys)
    THEN Bind(KeepNotIgnored(h, h[config].val[key].v, ignored),
              LAMBDA r : IF Raising(r.h)
                         THEN r.h
                         ELSE SetKey(r.h, config_updated, key, r.x))
    ELSE h

\* _get_config_axis_section: a deep copy of the section (line 226) whose
\* "label" and "ticklabels", when the section has them, are replaced by the
\* filtered comprehension over the section's own.
GetConfigAxisSection(h, config) ==
    Bind(DeepCopy(h, RefV(config)),
         LAMBDA c :
             Bind(SetFilteredItem(c.h, config, c.x.v, "label",
                                  LabelOptionsIgnored),
                  LAMBDA h1 :
                      Bind(SetFilteredItem(h1, config, c.x.v, "ticklabels",
                                           TicklabelsOptionsIgnored),
                           LAMBDA h2 : [h |-> h2, x |-> c.x])))

\* config_general = None
None == 0

\* d.pop(key): the key leaves the dict.
PopKey(h, a, key) ==
    LET Other(k) == k # key
        ks == SelectSeq(h[a].keys, Other)
    IN [h EXCEPT ![a] = DictObj(ks, [k \in Range(ks) |-> h[a].val[k]])]

\* config_updated[plot][section] = <the section's filter>(
\* config = config_plot[section]): a config_plot without the key raises
\* KeyError, a config_updated[plot] that is a list takes no key.
FilterInto(h, config_updated, plot, config_plot, section) ==
    IF section \notin Range(h[config_plot].keys)
    THEN Raise(h, "KeyError")
    ELSE LET arg == h[config_plot].val[section].v
             target == h[config_updated].val[plot].v
         IN Bind(CASE section = "lineplot" -> GetConfigLineplotSection(h, arg)
                   [] section = "title" -> GetConfigTitleSection(h, arg)
                   [] OTHER -> GetConfigAxisSection(h, arg),
                 LAMBDA r :
                     CASE Raising(r.h) -> r.h
                       [] ~ Raising(r.h) /\ h[target].kind # "dict" ->
                              Raise(r.h, "TypeError")
                       [] OTHER -> SetKey(r.h, target, section, r.x))

\* The sub-section filtered whether config_plot has it or not.
SetFilteredUnguarded(h, config_updated, plot, config_plot, section) ==
    IF Raising(h)
    THEN h
    ELSE FilterInto(h, config_updated, plot, config_plot, section)

\* Lines 329-358 for one sub-section: when config_plot has it,
\* config_updated[plot][section] becomes the filtered section.
SetFiltered(h, config_updated, plot, config_plot, section) ==
    IF Raising(h) \/ section \notin Range(h[config_plot].keys)
    THEN h
    ELSE FilterInto(h, config_updated, plot, config_plot, section)

\* The body of the loop of lines 301-358 for a key other than "general".
NormalizePlot(h, config, config_updated, config_general, plot) ==
    Bind(IF config_general # None
         THEN RecursiveMerge(h, h[config].val[plot].v, config_general)
         ELSE [h |-> h, x |-> h[config].val[plot]],
         LAMBDA m :
    Bind(SetFiltered(m.h, config_updated, plot, m.x.v, "lineplot"),
         LAMBDA h1 :
    Bind(SetFiltered(h1, config_updated, plot, m.x.v, "title"),
         LAMBDA h2 :
    Bind(SetFiltered(h2, config_updated, plot, m.x.v, "xaxis"),
         LAMBDA h3 :
             SetFiltered(h3, config_updated, plot, m.x.v, "yaxis")))))

\* The loop of lines 301-358 from the i-th key of config on; line 361.
RECURSIVE LineplotsLoop(_, _, _, _, _)
LineplotsLoop(h, config, config_updated, config_general, i) ==
    IF Raising(h)
    THEN NoValue(h)
    ELSE IF i > Len(h[config].keys)
    THEN [h |-> h, x |-> RefV(config_updated)]
    ELSE LET plot == h[config].keys[i]
         IN IF plot = "general"
            THEN Bind(PopKey(h, config_updated, "general"),
                      LAMBDA h1 :
                          LineplotsLoop(h1, config, config_updated,
                                        h[config_updated].val["general"].v,
                                        i + 1))
            ELSE Bind(NormalizePlot(h, config, config_updated,
                                    config_general, plot),
                      LAMBDA h1 :
                          LineplotsLoop(h1, config, config_updated,
                                        config_general, i + 1))

\* _get_config_lineplots
GetConfigLineplots(h, config) ==
    Bind(DeepCopy(h, RefV(config)),
         LAMBDA c : LineplotsLoop(c.h, config, c.x.v, None, 1))

\* The "plot" mappings of the configuration files the normalization is run
\* on.  A block holds any of: an option that is no sub-section ("figsize"),
\* "lineplot", "title", "xaxis", "yaxis"; the sub-sections mix ignored and
\* kept options.  The scalars of a plot's block are 1, those of "general" 2.
Tree(ks, vals) ==
    DictT(ks, [k \in Range(ks) |-> vals[CHOOSE i \in 1 .. Len(ks) : ks[i] = k]])

Opt(tree) == {<<>>, <<tree>>}

LineplotSections(n) ==
    Opt(Tree(<<"color", "data">>, <<IntT(n), IntT(n)>>))

TitleSections(n) ==
    Opt(Tree(<<"text", "fontsize">>, <<IntT(n), IntT(n)>>))

XaxisSections(n) ==
    {<<>>,
     <<Tree(<<"label", "interval", "ticklabels">>,
                 <<Tree(<<"fontsize", "text">>, <<IntT(n), IntT(n)>>),
                   ListT(<<n>>),
                   Tree(<<"rotation", "labels">>, <<IntT(n), IntT(n)>>)>>)>>,
     <<Tree(<<"label">>, <<Tree(<<"color">>, <<IntT(n)>>)>>)>>}

YaxisSections(n) ==
    Opt(Tree(<<"ticklabels", "ticks">>,
             <<Tree(<<"label", "size">>, <<IntT(n), IntT(n)>>),
               Tree(<<"spacing">>, <<IntT(n)>>)>>))

PlotBlock(f, l, t, x, y) ==
    LET Key(o, k) == IF o = <<>> THEN <<>> ELSE <<k>>
    IN Tree(Key(f, "figsize") \o Key(l, "lineplot") \o Key(t, "title")
                \o Key(x, "xaxis") \o Key(y, "yaxis"),
            f \o l \o t \o x \o y)

PlotBlocks(n) ==
    {PlotBlock(f, l, t, x, y) :
        f \in Opt(IntT(n)), l \in LineplotSections(n), t \in TitleSections(n),
        x \in XaxisSections(n), y \in YaxisSections(n)}

PlotConfigs ==
    {Tree(<<"p1">>, <<b>>) : b \in PlotBlocks(1)}
    \cup {Tree(<<"general", "p1">>, <<g, b>>) :
             g \in PlotBlocks(2), b \in PlotBlocks(1)}
    \cup {Tree(<<"p1", "general">>, <<b, g>>) :
             g \in PlotBlocks(2), b \in PlotBlocks(1)}
    \cup {Tree(<<"p1", "general", "p2">>, <<b, g, b>>) :
             g \in PlotBlocks(2),
             b \in {q \in PlotBlocks(1) : Len(q.keys) = 5}}

InitPlot ==
    /\ NoFrame
    /\ NoProcess
    /\ \E t \in PlotConfigs :
          LET r == Load(<<>>, t)
          IN /\ heap = r.h
             /\ roots = <<Root("config", r.x, r.h)>>

\* config["plot"] = _get_config_lineplots(config = config["plot"])
Normalize ==
    /\ Len(roots) = 1
    /\ outcome = NoCall
    /\ \E r \in {GetConfigLineplots(heap, roots[1].addr)} :
          /\ heap' = r.h
          /\ IF Raising(r.h)
             THEN /\ outcome' = Raised(ExcOf(r.h))
                  /\ roots' = roots
             ELSE /\ outcome' = outcome
                  /\ roots' = Append(roots, Root("config_updated", r.x, r.h))
    /\ UNCHANGED <<df, entry, method, inplace, threads, pc, events, args>>

NextPlot == Normalize

SpecPlot == InitPlot /\ [][NextPlot]_vars

------------------------------------------------------------------------------
(* Claims about the normalization of the plot sections, under SpecPlot.      *)

Normalized == Len(roots) = 2

Config == roots[1].was

ConfigUpdated == roots[2].was

Plots(t) == Range(t.keys) \ {"general"}

\* A mapping without the keys of a denylist.
Without(t, ignored) ==
    LET Kept(k) == k \notin ignored
        ks == SelectSeq(t.keys, Kept)
    IN DictT(ks, [k \in Range(ks) |-> t.val[k]])

\* An axis block with its nested label and ticklabels blocks filtered.
AxisFiltered(t) ==
    DictT(t.keys,
          [k \in Range(t.keys) |->
              CASE k = "label" -> Without(t.val[k], LabelOptionsIgnored)
                [] k = "ticklabels" ->
                       Without(t.val[k], TicklabelsOptionsIgnored)
                [] OTHER -> t.val[k]])

\* A plot block with the four known sub-sections filtered.
SubSectionsFiltered(t) ==
    DictT(t.keys,
          [k \in Range(t.keys) |->
              CASE k = "lineplot" -> Without(t.val[k], LineplotOptionsIgnored)
                [] k = "title" -> Without(t.val[k], TitleOptionsIgnored)
                [] k \in {"xaxis", "yaxis"} -> AxisFiltered(t.val[k])
                [] OTHER -> t.val[k]])

\* The first key of the file is "general".
GeneralFirst(t) == t.keys # <<>> /\ t.keys[1] = "general"

\* C19: when the plot configuration has a "general" block, the normalized
\* block of every other plot equals merge(per-plot block, general block) with
\* the four known sub-sections filtered: every key of "general", sub-section
\* or not, that the per-plot block lacks is in the normalized block with
\* general's value, and every key the per-plot block defines keeps the
\* per-plot value.  Stated for the files whose first key is "general", so
\* that every plot comes after it.
C19_NormalizedIsMergeWithGeneral ==
    (Normalized /\ GeneralFirst(Config)) =>
        \A p \in Plots(Config) :
            /\ SameValue(ConfigUpdated.val[p],
                         SubSectionsFiltered(
                             LeftBiasedMerge(Config.val[p],
                                             Config.val["general"])))
            /\ \A k \in Range(Config.val["general"].keys) :
                  Has(ConfigUpdated.val[p], k)

\* Everything src holds, m holds with the same value.
RECURSIVE Within(_, _)
Within(src, m) ==
    IF IsMapping(src)
    THEN /\ IsMapping(m)
         /\ \A k \in Range(src.keys) :
               Has(m, k) /\ Within(src.val[k], m.val[k])
    ELSE m = src

\* The axis blocks hold what the blocks they were filtered from held, less
\* the denylisted keys of label and ticklabels.
AxisKept(src, axis) ==
    /\ Range(src.keys) \subseteq Range(axis.keys)
    /\ \A k \in Range(src.keys) \ {"label", "ticklabels"} :
          Within(src.val[k], axis.val[k])
    /\ Has(src, "label") =>
          \A k \in Range(src.val["label"].keys) \ LabelOptionsIgnored :
              /\ Has(axis.val["label"], k)
              /\ axis.val["label"].val[k] = src.val["label"].val[k]
    /\ Has(src, "ticklabels") =>
          \A k \in Range(src.val["ticklabels"].keys)
                      \ TicklabelsOptionsIgnored :
              /\ Has(axis.val["ticklabels"], k)
              /\ axis.val["ticklabels"].val[k] = src.val["ticklabels"].val[k]

\* C20: after normalization, for every plot and for both xaxis and yaxis, the
\* nested label block has none of the label denylist keys, the nested
\* ticklabels block none of the ticklabels denylist keys, every other key of
\* those blocks is kept with its value, and every other key of the axis block
\* (interval, ticks, ...) is kept unchanged.  The keys the plot's own block
\* defines are kept in every case; where "general" comes first in the file
\* the axis block is the filtered merge of the plot's and general's.
C20_AxisBlocksFiltered ==
    Normalized =>
        \A p \in Plots(Config) : \A a \in {"xaxis", "yaxis"} :
            /\ Has(ConfigUpdated.val[p], a) =>
                  LET axis == ConfigUpdated.val[p].val[a]
                  IN /\ Has(axis, "label") =>
                            Range(axis.val["label"].keys)
                                \cap LabelOptionsIgnored = {}
                     /\ Has(axis, "ticklabels") =>
                            Range(axis.val["ticklabels"].keys)
                                \cap TicklabelsOptionsIgnored = {}
            /\ Has(Config.val[p], a) =>
                  /\ Has(ConfigUpdated.val[p], a)
                  /\ AxisKept(Config.val[p].val[a], ConfigUpdated.val[p].val[a])
            /\ (Has(Config.val[p], a) /\ ~ Has(Config, "general")) =>
                  ConfigUpdated.val[p].val[a]
                      = AxisFiltered(Config.val[p].val[a])
            /\ (GeneralFirst(Config) /\ Has(Config.val[p], a)
                    /\ Has(Config.val["general"], a)) =>
                  SameValue(ConfigUpdated.val[p].val[a],
                            AxisFiltered(LeftBiasedMerge(
                                Config.val[p].val[a],
                                Config.val["general"].val[a])))

\* A normalized plot whose xaxis had denylisted keys in label and in
\* ticklabels: they are gone, the other keys of the two blocks and the
\* interval of the axis are there.
C20_Witness ==
    /\ Normalized
    /\ Has(Config.val["p1"], "xaxis")
    /\ Has(Config.val["p1"].val["xaxis"], "ticklabels")
    /\ Has(Config.val["p1"].val["xaxis"].val["label"], "text")
    /\ Has(Config.val["p1"].val["xaxis"].val["ticklabels"], "labels")
    /\ ConfigUpdated.val["p1"].val["xaxis"].val["label"].keys = <<"fontsize">>
    /\ ConfigUpdated.val["p1"].val["xaxis"].val["ticklabels"].keys
           = <<"rotation">>
    /\ Has(ConfigUpdated.val["p1"].val["xaxis"], "interval")

\* The four sub-sections the normalization knows.
SubSections == {"lineplot", "title", "xaxis", "yaxis"}

\* C21: normalizing the plot sections raises no error for any mapping of plot
\* blocks, whichever of lineplot, title, xaxis, yaxis each block has or
\* lacks; a sub-section that neither the plot's own block nor the "general"
\* block has is not in the normalized block of the plot.
C21_NoErrorAbsentSkipped ==
    /\ outcome.kind # "raise"
    /\ Normalized =>
          \A p \in Plots(Config) : \A s \in SubSections :
              (/\ ~ Has(Config.val[p], s)
               /\ ~ (Has(Config, "general") /\ Has(Config.val["general"], s)))
                  => ~ Has(ConfigUpdated.val[p], s)

\* A normalized file whose plot lacks title and lineplot, the first absent
\* from "general" as well, the second taken from "general".
C21_Witness ==
    /\ Normalized
    /\ outcome.kind # "raise"
    /\ GeneralFirst(Config)
    /\ ~ Has(Config.val["p1"], "title")
    /\ ~ Has(Config.val["general"], "title")
    /\ ~ Has(Config.val["p1"], "lineplot")
    /\ Has(Config.val["general"], "lineplot")
    /\ Has(ConfigUpdated.val["p1"], "lineplot")
    /\ ~ Has(ConfigUpdated.val["p1"], "title")

------------------------------------------------------------------------------
(* load_config_plot (io/configio.py, lines 425-493), stage by stage.         *)

\* PLOT_TYPES
PLOT_TYPES == {"lineplots"}

NoneV == [t |-> "none", v |-> 0]

\* config.get(key)
Get(h, a, key) == IF key \in Range(h[a].keys) THEN h[a].val[key] ELSE NoneV

\* A check that lets every plot type through.
PlotTypeRejectedNever(plot_type) == FALSE

\* Lines 447 and 456: plot_type is None, or plot_type not in PLOT_TYPES.
PlotTypeRejected(plot_type) ==
    plot_type = NoneV \/ StrOf(plot_type) \notin PLOT_TYPES

\* The configuration files load_config_plot is called on.  "type" is absent,
\* "lineplots" or another name; "output" is absent, a mapping with an
\* ignored and a kept option, or a list; "plot" is absent, a mapping of
\* plot blocks, or a mapping in which a list stands where a block, a
\* sub-section or a label block is expected.
LoadTypes == {<<>>, <<StrT("lineplots")>>, <<StrT("barplots")>>}

LoadOutputs ==
    {<<>>, <<Tree(<<"fname", "dpi">>, <<IntT(1), IntT(1)>>)>>, <<ListT(<<1>>)>>}

FullBlocks(n) == {q \in PlotBlocks(n) : Len(q.keys) = 5}

MappingPlots ==
    {Tree(<<"p1">>, <<b>>) : b \in PlotBlocks(1)}
    \cup {Tree(<<"general", "p1">>, <<g, b>>) :
             g \in FullBlocks(2), b \in PlotBlocks(1)}

OtherPlots ==
    {Tree(<<"p1">>, <<ListT(<<1>>)>>),
     Tree(<<"p1">>, <<Tree(<<"title">>, <<ListT(<<1>>)>>)>>),
     Tree(<<"p1">>, <<Tree(<<"xaxis">>, <<ListT(<<1>>)>>)>>),
     Tree(<<"p1">>,
          <<Tree(<<"xaxis">>, <<Tree(<<"label">>, <<ListT(<<1>>)>>)>>)>>),
     Tree(<<"general", "p1">>,
          <<ListT(<<2>>), Tree(<<"figsize">>, <<IntT(1)>>)>>),
     Tree(<<"general", "p1">>, <<ListT(<<2>>), Tree(<<>>, <<>>)>>)}
    \cup {Tree(<<"general", "p1">>, <<g, ListT(<<1>>)>>) : g \in FullBlocks(2)}

LoadPlots == {<<>>} \cup {<<t>> : t \in MappingPlots \cup OtherPlots}

ConfigFile(ty, o, p) ==
    LET Key(v, k) == IF v = <<>> THEN <<>> ELSE <<k>>
    IN Tree(Key(ty, "type") \o Key(o, "output") \o Key(p, "plot"),
            ty \o o \o p)

ConfigFiles ==
    {ConfigFile(ty, o, p) : ty \in LoadTypes, o \in LoadOutputs,
                            p \in LoadPlots}

\* Line 441: config = yaml.safe_load(open(config_file, "r"))
InitLoad ==
    /\ NoFrame
    /\ pc = "type"
    /\ events = <<>>
    /\ NoArgs
    /\ \E t \in ConfigFiles :
          LET r == Load(<<>>, t)
          IN /\ heap = r.h
             /\ roots = <<Root("config", r.x, r.h)>>

\* Lines 444-461: the plot type is read and checked.
CheckType ==
    /\ pc = "type"
    /\ IF PlotTypeRejected(Get(heap, roots[1].addr, "type"))
       THEN /\ outcome' = Raised("ValueError")
            /\ pc' = "raised"
       ELSE /\ outcome' = outcome
            /\ pc' = "output"
    /\ UNCHANGED <<df, entry, method, inplace, threads, heap, roots,
                   events, args>>

\* Lines 467-472: config["output"] = _get_config_output_section(...)
FilterOutputSection ==
    /\ pc = "output"
    /\ LET config == roots[1].addr
       IN IF "output" \notin Range(heap[config].keys)
          THEN /\ pc' = "lineplots"
               /\ UNCHANGED <<heap, outcome, events>>
          ELSE \E r \in {GetConfigOutputSection(
                             heap, heap[config].val["output"].v)} :
                  /\ events' = Append(events, "output")
                  /\ IF Raising(r.h)
                     THEN /\ heap' = r.h
                          /\ outcome' = Raised(ExcOf(r.h))
                          /\ pc' = "raised"
                     ELSE /\ heap' = SetKey(r.h, config, "output", r.x)
                          /\ outcome' = outcome
                          /\ pc' = "lineplots"
    /\ UNCHANGED <<df, entry, method, inplace, threads, roots, args>>

\* Lines 479-493: config["plot"] = _get_config_lineplots(...) when the type
\* is "lineplots", then the return of config.
NormalizePlotSection ==
    /\ pc = "lineplots"
    /\ LET config == roots[1].addr
       IN CASE Get(heap, config, "type") # StrV("lineplots") ->
                   /\ pc' = "done"
                   /\ roots' = Append(roots,
                                      Root("return", RefV(config), heap))
                   /\ UNCHANGED <<heap, outcome, events>>
            [] /\ Get(heap, config, "type") = StrV("lineplots")
               /\ "plot" \notin Range(heap[config].keys) ->
                   /\ pc' = "raised"
                   /\ outcome' = Raised("KeyError")
                   /\ UNCHANGED <<heap, roots, events>>
            [] OTHER ->
                   \E r \in {GetConfigLineplots(
                                 heap, heap[config].val["plot"].v)} :
                      /\ events' = Append(events, "lineplots")
                      /\ IF Raising(r.h)
                         THEN /\ heap' = r.h
                              /\ outcome' = Raised(ExcOf(r.h))
                              /\ pc' = "raised"
                              /\ roots' = roots
                         ELSE \E h1 \in {SetKey(r.h, config, "plot", r.x)} :
                                 /\ heap' = h1
                                 /\ outcome' = outcome
                                 /\ pc' = "done"
                                 /\ roots' = Append(roots,
                                        Root("return", RefV(config), h1))
    /\ UNCHANGED <<df, entry, method, inplace, threads, args>>

NextLoad == CheckType \/ FilterOutputSection \/ NormalizePlotSection

SpecLoad == InitLoad /\ [][NextLoad]_vars

\* The file as it was loaded.
File == roots[1].was

TypeIsLineplots == Has(File, "type") /\ File.val["type"] = StrT("lineplots")

\* C22: load_config_plot rejects a configuration whose "type" is missing, and
\* one whose "type" is not "lineplots", with a ValueError, and before any
\* output-section filtering or plot normalization has taken place: the call
\* never gets past the type check and leaves the configuration as loaded.
\* With type "lineplots" no ValueError is raised, and a call that returns has
\* normalized the plot section.
C22_TypeRejectedFirst ==
    /\ ~ TypeIsLineplots =>
          /\ pc \in {"type", "raised"}
          /\ events = <<>>
          /\ TreeOf(heap, RefV(roots[1].addr)) = File
          /\ pc = "raised" => outcome = Raised("ValueError")
    /\ TypeIsLineplots =>
          /\ outcome.exc # "ValueError"
          /\ pc = "done" =>
                /\ events # <<>>
                /\ events[Len(events)] = "lineplots"

\* A file of another type with an output section has been rejected.
C22_Witness ==
    /\ pc = "raised"
    /\ outcome = Raised("ValueError")
    /\ Has(File, "type")
    /\ Has(File, "output")
    /\ Has(File, "plot")

\* A file of type "lineplots" has gone through both stages.
C22_WitnessLineplots ==
    /\ pc = "done"
    /\ events = <<"output", "lineplots">>
    /\ TypeIsLineplots

------------------------------------------------------------------------------
(* The position of "general" among the plots, under SpecPlot.                *)

\* The same plot mapping with "general" moved to the front.
GeneralMovedFirst(t) ==
    LET Other(k) == k # "general"
    IN DictT(<<"general">> \o SelectSeq(t.keys, Other), t.val)

\* What _get_config_lineplots returns for a plot mapping.
NormalizedTree(t) ==
    LET loaded == Load(<<>>, t)
        r == GetConfigLineplots(loaded.h, loaded.x.v)
    IN TreeOf(r.h, r.x)

\* C24: the normalized plot configuration does not depend on where "general"
\* sits among the top-level keys: every plot block of a file gets the same
\* normalized block as it gets in the file with "general" listed first.
C24_GeneralPositionIrrelevant ==
    (Normalized /\ Has(Config, "general")) =>
        \A p \in Plots(Config) :
            SameValue(ConfigUpdated.val[p],
                      NormalizedTree(GeneralMovedFirst(Config)).val[p])

------------------------------------------------------------------------------
(* openmmwrap-plot-state-data (execs/openmmwrap_plot_state_data.py, main).   *)

\* A path is the sequence of its components, the first one "/" when the path
\* is absolute.
IsAbs(p) == p # <<>> /\ p[1] = "/"

\* os.path.join(a, b)
PathJoin(a, b) == IF IsAbs(b) THEN b ELSE a \o b

\* The file a path names in a process whose current directory is cwd.
Resolve(cwd, p) == IF IsAbs(p) THEN p ELSE cwd \o p

\* One thing a command has done: a stage passed, a file written at a path,
\* a message naming a path, the exit with an error.
Event(op, path) == [op |-> op, path |-> path]

\* The directories the command is started in, and the values of --work-dir
\* (os.getcwd() by default) and --output-plot ("plot.pdf" by default).
CurrentDirs == {<<"/", "home">>, <<"/", "tmp">>}

WorkDirs(cwd) == {cwd, <<"/", "data">>, <<"/", "home">>, <<"run">>}

OutputPlots == {<<"plot.pdf">>, <<"fig", "out.pdf">>, <<"/", "srv", "out.pdf">>}

\* Lines 122-133: the arguments are parsed.
InitPlotCli ==
    /\ NoFrame
    /\ NoConfig
    /\ pc = "load_config"
    /\ events = <<>>
    /\ \E cwd \in CurrentDirs : \E wd \in WorkDirs(cwd) :
          \E output_plot \in OutputPlots :
             args = [cwd |-> cwd, work_dir |-> wd, output_plot |-> output_plot]

\* Lines 190-208: the configuration is loaded, or the command exits.
PlotCliLoadConfig ==
    /\ pc = "load_config"
    /\ \E loaded \in BOOLEAN :
          IF loaded
          THEN /\ pc' = "load_state_data"
               /\ events' = Append(events, Event("load_config", <<>>))
          ELSE /\ pc' = "exit"
               /\ events' = Append(events, Event("exit", <<>>))
    /\ UNCHANGED <<df, entry, method, outcome, inplace, threads, heap, roots,
                   args>>

\* Lines 215-235: the state data are loaded, or the command exits.
PlotCliLoadStateData ==
    /\ pc = "load_state_data"
    /\ \E loaded \in BOOLEAN :
          IF loaded
          THEN /\ pc' = "plot"
               /\ events' = Append(events, Event("load_state_data", <<>>))
          ELSE /\ pc' = "exit"
               /\ events' = Append(events, Event("exit", <<>>))
    /\ UNCHANGED <<df, entry, method, outcome, inplace, threads, heap, roots,
                   args>>

\* Lines 242-267: output_plot_path is set, plot_state_data is called with
\* output_pdf = output_plot and saves the figure under that name
\* (plotting/plots.py, line 215), and the message names output_plot_path;
\* or the plot fails and the command exits.
PlotCliPlot ==
    /\ pc = "plot"
    /\ LET output_plot_path == PathJoin(args.work_dir, args.output_plot)
           output_pdf == args.output_plot
       IN \E plotted \in BOOLEAN :
             IF plotted
             THEN /\ pc' = "done"
                  /\ events' = events \o <<Event("savefig", output_pdf),
                                           Event("info", output_plot_path)>>
             ELSE /\ pc' = "exit"
                  /\ events' = Append(events, Event("exit", <<>>))
    /\ UNCHANGED <<df, entry, method, outcome, inplace, threads, heap, roots,
                   args>>

NextPlotCli == PlotCliLoadConfig \/ PlotCliLoadStateData \/ PlotCliPlot

SpecPlotCli == InitPlotCli /\ [][NextPlotCli]_vars

\* The path of the first event of a kind.
PathOf(op) == events[CHOOSE i \in 1 .. Len(events) : events[i].op = op].path

\* C23: openmmwrap-plot-state-data writes the output plot inside the working
\* directory given by --work-dir: the path handed to the plotting routine
\* names the file work_dir joined with the output plot name, and it is the
\* file that the success message reports.
C23_PlotWrittenInWorkDir ==
    pc = "done" =>
        /\ Resolve(args.cwd, PathOf("savefig"))
               = Resolve(args.cwd, PathJoin(args.work_dir, args.output_plot))
        /\ Resolve(args.cwd, PathOf("savefig"))
               = Resolve(args.cwd, PathOf("info"))

------------------------------------------------------------------------------
(* run_simulation (md/simulation.py, lines 299-566).                         *)

\* An optional argument: None, or the string (a sequence of characters) or
\* the dict (a function from option names) that was passed.
NoneArg == [given |-> FALSE, name |-> <<>>, dict |-> [k \in {} |-> 0]]

StrArg(name) == [given |-> TRUE, name |-> name, dict |-> [k \in {} |-> 0]]

DictArg(d) == [given |-> TRUE, name |-> <<>>, dict |-> d]

\* x is None, taken to be false whatever x is.
IsNoneNever(x) == FALSE

\* x is None
IsNone(x) == ~ x.given

\* not x, for an optional dict: None and the empty dict.
Falsy(x) == ~ x.given \/ DOMAIN x.dict = {}

\* s.endswith(suffix)
EndsWith(s, suffix) ==
    /\ Len(s) >= Len(suffix)
    /\ SubSeq(s, Len(s) - Len(suffix) + 1, Len(s)) = suffix

DotXml == <<".", "x", "m", "l">>

DotChk == <<".", "c", "h", "k">>

\* What the run has done: a reporter appended, a state loaded, positions
\* set, the steps run.
RunEvent(op, file, options) == [op |-> op, file |-> file, options |-> options]

\* The calls of run_simulation: each output file absent or named, its
\* options None, empty or given; checkpoint and restart files with the
\* extensions .xml, .chk, another one, and "xml" with no dot.
TrajectoryFiles == {NoneArg, StrArg(<<"t", ".", "x", "t", "c">>)}

StateDataFiles == {NoneArg, StrArg(<<"s", ".", "c", "s", "v">>)}

CheckpointFiles ==
    {NoneArg, StrArg(<<"c">> \o DotXml), StrArg(<<"c">> \o DotChk),
     StrArg(<<"c", ".", "d", "a", "t">>), StrArg(<<"x", "m", "l">>)}

RestartFiles ==
    {NoneArg, StrArg(<<"r">> \o DotXml), StrArg(<<"r">> \o DotChk),
     StrArg(<<"r", ".", "t", "x", "t">>)}

ReporterOptions ==
    {NoneArg, DictArg([k \in {} |-> 0]), DictArg([reportInterval |-> 10])}

CheckpointOptions ==
    ReporterOptions \cup
        {DictArg([reportInterval |-> 10, writeState |-> b]) : b \in BOOLEAN}

RunCalls ==
    [trajectory_file : TrajectoryFiles, trajectory_options : ReporterOptions,
     state_data_file : StateDataFiles, state_data_options : ReporterOptions,
     checkpoint_file : CheckpointFiles, checkpoint_options : CheckpointOptions,
     restart_from : RestartFiles]

\* Lines 383-391: the Simulation object is created.  args.call is the call
\* as it was made, args.checkpoint_options the caller's dict as it is now.
InitRun ==
    /\ NoFrame
    /\ NoConfig
    /\ pc = "trajectory"
    /\ events = <<>>
    /\ \E call \in RunCalls :
          args = [call |-> call, checkpoint_options |-> call.checkpoint_options]

\* Lines 394-414
SetTrajectoryReporter ==
    /\ pc = "trajectory"
    /\ LET call == args.call
       IN CASE IsNone(call.trajectory_file) ->
                   /\ pc' = "state_data"
                   /\ UNCHANGED <<outcome, events>>
            [] /\ ~ IsNone(call.trajectory_file)
               /\ IsNone(call.trajectory_options) ->
                   /\ pc' = "raised"
                   /\ outcome' = Raised("ValueError")
                   /\ UNCHANGED events
            [] OTHER ->
                   /\ pc' = "state_data"
                   /\ events' = Append(events,
                          RunEvent("XTCReporter", call.trajectory_file.name,
                                   call.trajectory_options.dict))
                   /\ UNCHANGED outcome
    /\ UNCHANGED <<df, entry, method, inplace, threads, heap, roots, args>>

\* Lines 418-442
SetStateDataReporter ==
    /\ pc = "state_data"
    /\ LET call == args.call
       IN CASE IsNone(call.state_data_file) ->
                   /\ pc' = "checkpoint"
                   /\ UNCHANGED <<outcome, events>>
            [] /\ ~ IsNone(call.state_data_file)
               /\ IsNone(call.state_data_options) ->
                   /\ pc' = "raised"
                   /\ outcome' = Raised("ValueError")
                   /\ UNCHANGED events
            [] OTHER ->
                   /\ pc' = "checkpoint"
                   /\ events' = Append(events,
                          RunEvent("StateDataReporter",
                                   call.state_data_file.name,
                                   call.state_data_options.dict))
                   /\ UNCHANGED outcome
    /\ UNCHANGED <<df, entry, method, inplace, threads, heap, roots, args>>

\* Lines 445-503: checkpoint_options["writeState"] is set in the caller's
\* dict, which is then passed to the reporter.
SetCheckpointReporter ==
    /\ pc = "checkpoint"
    /\ LET call == args.call
           file == call.checkpoint_file
           WithWriteState(b) ==
               [k \in DOMAIN args.checkpoint_options.dict \cup {"writeState"}
                   |-> IF k = "writeState"
                       THEN b
                       ELSE args.checkpoint_options.dict[k]]
           Report(b) ==
               /\ pc' = "restart"
               /\ args' = [args EXCEPT !.checkpoint_options =
                                            DictArg(WithWriteState(b))]
               /\ events' = Append(events,
                      RunEvent("CheckpointReporter", file.name,
                               WithWriteState(b)))
               /\ UNCHANGED outcome
           Fail ==
               /\ pc' = "raised"
               /\ outcome' = Raised("ValueError")
               /\ UNCHANGED <<events, args>>
       IN CASE IsNone(file) ->
                   /\ pc' = "restart"
                   /\ UNCHANGED <<outcome, events, args>>
            [] ~ IsNone(file) /\ Falsy(args.checkpoint_options) -> Fail
            [] /\ ~ IsNone(file) /\ ~ Falsy(args.checkpoint_options)
               /\ EndsWith(file.name, DotXml) -> Report(TRUE)
            [] /\ ~ IsNone(file) /\ ~ Falsy(args.checkpoint_options)
               /\ ~ EndsWith(file.name, DotXml)
               /\ EndsWith(file.name, DotChk) -> Report(FALSE)
            [] OTHER -> Fail
    /\ UNCHANGED <<df, entry, method, inplace, threads, heap, roots>>

\* Lines 512-539
Restart ==
    /\ pc = "restart"
    /\ LET file == args.call.restart_from
       IN CASE IsNone(file) ->
                   /\ pc' = "run"
                   /\ events' = Append(events,
                          RunEvent("setPositions", <<>>, NoneArg.dict))
                   /\ UNCHANGED outcome
            [] ~ IsNone(file) /\ EndsWith(file.name, DotXml) ->
                   /\ pc' = "run"
                   /\ events' = Append(events,
                          RunEvent("loadState", file.name, NoneArg.dict))
                   /\ UNCHANGED outcome
            [] /\ ~ IsNone(file) /\ ~ EndsWith(file.name, DotXml)
               /\ EndsWith(file.name, DotChk) ->
                   /\ pc' = "run"
                   /\ events' = Append(events,
                          RunEvent("loadCheckpoint", file.name, NoneArg.dict))
                   /\ UNCHANGED outcome
            [] OTHER ->
                   /\ pc' = "raised"
                   /\ outcome' = Raised("TypeError")
                   /\ UNCHANGED events
    /\ UNCHANGED <<df, entry, method, inplace, threads, heap, roots, args>>

\* Lines 548-566: sim.step(n_steps), then the return.
Step ==
    /\ pc = "run"
    /\ pc' = "done"
    /\ events' = Append(events, RunEvent("step", <<>>, NoneArg.dict))
    /\ UNCHANGED <<df, entry, method, outcome, inplace, threads, heap, roots,
                   args>>

NextRun ==
    \/ SetTrajectoryReporter
    \/ SetStateDataReporter
    \/ SetCheckpointReporter
    \/ Restart
    \/ Step

SpecRun == InitRun /\ [][NextRun]_vars

\* A call runs on until it returns or raises.
FairSpecRun == SpecRun /\ WF_vars(NextRun)

\* The call as it was made.
Call == args.call

NeitherXmlNorChk(file) ==
    ~ EndsWith(file.name, DotXml) /\ ~ EndsWith(file.name, DotChk)

\* A requested output fails validation.
InvalidRequest ==
    \/ Call.trajectory_file.given /\ ~ Call.trajectory_options.given
    \/ Call.state_data_file.given /\ ~ Call.state_data_options.given
    \/ Call.checkpoint_file.given /\ ~ Call.checkpoint_options.given
    \/ Call.checkpoint_file.given /\ NeitherXmlNorChk(Call.checkpoint_file)
    \/ Call.restart_from.given /\ NeitherXmlNorChk(Call.restart_from)

Stepped == \E i \in 1 .. Len(events) : events[i].op = "step"

\* No step is run for an invalid request; a run that steps with a checkpoint
\* file has given the reporter writeState = True for .xml, False for .chk.
SteppedOnlyWhenValid ==
    /\ InvalidRequest => (~ Stepped /\ pc \notin {"run", "done"})
    /\ (Stepped /\ Call.checkpoint_file.given) =>
          \E i \in 1 .. Len(events) :
              /\ events[i].op = "CheckpointReporter"
              /\ events[i].file = Call.checkpoint_file.name
              /\ events[i].options["writeState"]
                     = EndsWith(Call.checkpoint_file.name, DotXml)
              /\ EndsWith(Call.checkpoint_file.name, DotChk)
                     => events[i].options["writeState"] = FALSE

\* C25: in run_simulation the simulation is stepped only after every
\* requested output has passed validation.  If a trajectory, state-data or
\* checkpoint file is given without its options, or the checkpoint file ends
\* in neither .xml nor .chk, or restart_from ends in neither .xml nor .chk,
\* an error is raised and no step is ever run; when validation passes,
\* writeState is true exactly for a .xml checkpoint file and false for a
\* .chk one.
C25_StepOnlyAfterValidation ==
    /\ [] SteppedOnlyWhenValid
    /\ InvalidRequest ~> (pc = "raised" /\ outcome.kind = "raise")

\* A call with a trajectory and a checkpoint file of another extension: the
\* trajectory reporter was set up, then the call raised without a step.
C25_Witness ==
    /\ pc = "raised"
    /\ outcome = Raised("ValueError")
    /\ Call.checkpoint_file.given
    /\ Call.checkpoint_options.given
    /\ NeitherXmlNorChk(Call.checkpoint_file)
    /\ Len(events) = 1
    /\ events[1].op = "XTCReporter"
    /\ ~ Stepped

\* A run that stepped with a .chk checkpoint file whose options came with
\* writeState = True: the reporter got writeState = False.
C25_WitnessWriteState ==
    /\ pc = "done"
    /\ Stepped
    /\ EndsWith(Call.checkpoint_file.name, DotChk)
    /\ "writeState" \in DOMAIN Call.checkpoint_options.dict
    /\ Call.checkpoint_options.dict["writeState"]
    /\ ~ args.checkpoint_options.dict["writeState"]

------------------------------------------------------------------------------
(* get_integrator, get_thermostat, get_barostat (md/integrators.py,          *)
(* md/thermostats.py, md/barostats.py) and the option readers they use       *)
(* (mdutil/_util.py).                                                        *)

\* name2function of the three modules.
Name2Function(kind) ==
    CASE kind = "integrator" ->
             ("openmm" :>
                 [VerletIntegrator |-> "get_openm_verlet_integrator",
                  LangevinIntegrator |-> "get_openmm_langevin_integrator",
                  LangevinMiddleIntegrator |->
                      "get_openmm_langevin_middle_integrator",
                  NoseHooverIntegrator |-> "get_openmm_nose_hoover_integrator",
                  BrownianIntegrator |-> "get_openmm_brownian_integrator",
                  VariableVerletIntegrator |->
                      "get_openmm_variable_verlet_integrator",
                  VariableLangevinIntegrator |->
                      "get_openmm_variable_langevin_integrator"])
      [] kind = "thermostat" ->
             ("openmm" :>
                 [AndersenThermostat |-> "get_openmm_andersen_thermostat"])
      [] kind = "barostat" ->
             ("openmm" :>
                 [MonteCarloBarostat |-> "get_openmm_monte_carlo_barostat",
                  MonteCarloAnisotropicBarostat |->
                      "get_openmm_monte_carlo_anisotropic_barostat",
                  MonteCarloMembraneBarostat |->
                      "get_openmm_monte_carlo_membrane_barostat"])

\* The engine class each getter constructs.
EngineClass(func) ==
    CASE func = "get_openm_verlet_integrator" -> "VerletIntegrator"
      [] func = "get_openmm_langevin_integrator" -> "LangevinIntegrator"
      [] func = "get_openmm_langevin_middle_integrator" ->
             "LangevinMiddleIntegrator"
      [] func = "get_openmm_nose_hoover_integrator" -> "NoseHooverIntegrator"
      [] func = "get_openmm_brownian_integrator" -> "BrownianIntegrator"
      [] func = "get_openmm_variable_verlet_integrator" ->
             "VariableVerletIntegrator"
      [] func = "get_openmm_variable_langevin_integrator" ->
             "VariableLangevinIntegrator"
      [] func = "get_openmm_andersen_thermostat" -> "AndersenThermostat"
      [] func = "get_openmm_monte_carlo_barostat" -> "MonteCarloBarostat"
      [] func = "get_openmm_monte_carlo_anisotropic_barostat" ->
             "MonteCarloAnisotropicBarostat"
      [] func = "get_openmm_monte_carlo_membrane_barostat" ->
             "MonteCarloMembraneBarostat"

\* A lookup that takes the provider's first entry whatever the name.
GetFuncAnyName(kind, is_from, name) ==
    LET table == Name2Function(kind)[is_from]
    IN table[CHOOSE n \in DOMAIN table : TRUE]

\* get_func = name2function[is_from][name]
GetFunc(kind, is_from, name) == Name2Function(kind)[is_from][name]

\* A Python value of an options dict: its type, the value as it is written,
\* and its units once it is a quantity.
Val(type, v) == [type |-> type, v |-> v, unit |-> "none"]

NoneVal == Val("NoneType", "None")

\* isinstance(value, accepted_types); bool is a subclass of int.
IsInstance(value, accepted_types) ==
    \/ value.type \in accepted_types
    \/ value.type = "bool" /\ "int" \in accepted_types

\* value * units
Times(value, units) == [value EXCEPT !.unit = units]

\* What a call gives: a value, or the exception it raised.
Ok(value) == [exc |-> "none", value |-> value]

Err(exc) == [exc |-> exc, value |-> NoneVal]

\* options.get(option_name)
OptionGet(options, option_name) ==
    IF option_name \in DOMAIN options THEN options[option_name] ELSE NoneVal

\* The body of get_option.
GetOption(options, option_name, accepted_types, required, default, units) ==
    LET option_value == OptionGet(options, option_name)
        WithUnits(x) == IF units # "none" THEN Times(x, units) ELSE x
    IN IF option_value = NoneVal
       THEN IF default # NoneVal
            THEN Ok(WithUnits(default))
            ELSE IF required THEN Err("ValueError") ELSE Ok(option_value)
       ELSE IF ~ IsInstance(option_value, accepted_types)
            THEN Err("TypeError")
            ELSE Ok(WithUnits(option_value))

\* A call get_option(**kwargs): the parameters options, option_name,
\* obj_name and accepted_types have no default, and a call that leaves one
\* out raises TypeError; required, default and units have defaults.
CallGetOption(kwargs) ==
    LET Arg(name, default) ==
            IF name \in DOMAIN kwargs THEN kwargs[name] ELSE default
    IN IF ~ ({"options", "option_name", "obj_name", "accepted_types"}
                 \subseteq DOMAIN kwargs)
       THEN Err("TypeError")
       ELSE GetOption(kwargs.options, kwargs.option_name,
                      kwargs.accepted_types, Arg("required", FALSE),
                      Arg("default", NoneVal), Arg("units", "none"))

get_pressure(options, obj_name) ==
    CallGetOption([options |-> options, option_name |-> "pressure",
                   obj_name |-> obj_name,
                   accepted_types |-> {"int", "float", "list"},
                   required |-> TRUE, default |-> NoneVal, units |-> "bar"])

get_surface_tension(options, obj_name) ==
    CallGetOption([options |-> options, obj_name |-> obj_name,
                   accepted_types |-> {"int", "float"},
                   required |-> TRUE, default |-> NoneVal,
                   units |-> "bar*nanometer"])

get_temperature(options, obj_name) ==
    CallGetOption([options |-> options, option_name |-> "temperature",
                   obj_name |-> obj_name, accepted_types |-> {"int", "float"},
                   required |-> TRUE, default |-> NoneVal,
                   units |-> "kelvin"])

\* get_scale_x, get_scale_y, get_scale_z, called with default = True
get_scale(options, obj_name, axis) ==
    CallGetOption([options |-> options, option_name |-> axis,
                   obj_name |-> obj_name, accepted_types |-> {"bool"},
                   required |-> TRUE, default |-> Val("bool", "True")])

\* get_xy_mode and get_z_mode: the option is read, then its name is turned
\* into the engine's constant, or ValueError is raised.
get_mode(options, obj_name, option_name, modes) ==
    LET r == CallGetOption([options |-> options, option_name |-> option_name,
                            obj_name |-> obj_name, accepted_types |-> {"str"},
                            required |-> TRUE, default |-> NoneVal])
    IN IF r.exc # "none"
       THEN r
       ELSE IF r.value.v \in modes
            THEN Ok(Val("MonteCarloMembraneBarostat", r.value.v))
            ELSE Err("ValueError")

get_xy_mode(options, obj_name) ==
    get_mode(options, obj_name, "xy_mode", {"XYIsotropic", "XYAnisotropic"})

get_z_mode(options, obj_name) ==
    get_mode(options, obj_name, "z_mode",
             {"ZFree", "ZFixed", "ConstantVolume"})

\* set_monte_carlo_frequency, set_force_group, set_random_number_seed: the
\* option is read, and set on the object when it is there.
set_option(options, obj_name, option_name, accepted_types) ==
    CallGetOption([options |-> options, option_name |-> option_name,
                   obj_name |-> obj_name, accepted_types |-> accepted_types])

\* The exception of the first call of a sequence that raised, or "none".
FirstExc(calls) ==
    IF \E i \in 1 .. Len(calls) : calls[i].exc # "none"
    THEN calls[CHOOSE i \in 1 .. Len(calls) :
                   /\ calls[i].exc # "none"
                   /\ \A j \in 1 .. i - 1 : calls[j].exc = "none"].exc
    ELSE "none"

\* The required settings of the three barostat getters, in the order they
\* are read.
RequiredSettings(func, options) ==
    LET obj_name == EngineClass(func)
    IN CASE func = "get_openmm_monte_carlo_barostat" ->
                <<get_pressure(options, obj_name),
                  get_temperature(options, obj_name)>>
         [] func = "get_openmm_monte_carlo_anisotropic_barostat" ->
                <<get_pressure(options, obj_name),
                  get_temperature(options, obj_name),
                  get_scale(options, obj_name, "scale_x"),
                  get_scale(options, obj_name, "scale_y"),
                  get_scale(options, obj_name, "scale_z")>>
         [] func = "get_openmm_monte_carlo_membrane_barostat" ->
                <<get_pressure(options, obj_name),
                  get_surface_tension(options, obj_name),
                  get_temperature(options, obj_name),
                  get_xy_mode(options, obj_name),
                  get_z_mode(options, obj_name)>>

\* The optional settings of the barostat getters, in the order they are set.
OptionalSettings(func, options) ==
    LET obj_name == EngineClass(func)
    IN <<set_option(options, obj_name, "frequency", {"int", "float"}),
         set_option(options, obj_name, "force_group", {"int"}),
         set_option(options, obj_name, "random_number_seed", {"int"})>>

\* The calls: a kind of object, a name, a provider and the options.  The
\* barostat calls come with every combination of the membrane barostat's
\* options absent, of an accepted type and value, or not.
Kinds == {"integrator", "thermostat", "barostat"}

Providers == {"openmm", "openmmtools", "gromacs"}

Names(kind) ==
    DOMAIN Name2Function(kind)["openmm"]
        \cup {"VerletIntegrator", "AndersenThermostat", "MonteCarloBarostat",
              "NoSuchObject"}

NoOptions == [k \in {} |-> NoneVal]

OneOption(name, values) ==
    {NoOptions} \cup {[k \in {name} |-> v] : v \in values}

BarostatOptions ==
    {p @@ s @@ t @@ xy @@ z @@ f :
        p \in OneOption("pressure", {Val("int", "1"), Val("str", "1")}),
        s \in OneOption("surface_tension",
                        {Val("int", "0"), Val("float", "2.0")}),
        t \in OneOption("temperature", {Val("int", "300")}),
        xy \in OneOption("xy_mode", {Val("str", "XYIsotropic"),
                                     Val("str", "XYAnisotropic"),
                                     Val("str", "XY")}),
        z \in OneOption("z_mode", {Val("str", "ZFree"), Val("str", "ZFixed"),
                                   Val("str", "ConstantVolume"),
                                   Val("str", "Z")}),
        f \in OneOption("frequency", {Val("str", "often")})}

GetCalls(kinds) ==
    UNION {{[kind |-> k, name |-> n, is_from |-> p, options |-> NoOptions] :
               n \in Names(k), p \in Providers} :
           k \in kinds \ {"barostat"}}
    \cup {[kind |-> "barostat", name |-> n, is_from |-> p, options |-> o] :
             n \in Names("barostat"), p \in Providers, o \in BarostatOptions}

InitGet ==
    /\ NoFrame
    /\ NoConfig
    /\ pc = "dispatch"
    /\ events = <<>>
    /\ args \in GetCalls(Kinds)

\* get_integrator, get_thermostat, get_barostat up to the call of get_func.
Dispatch ==
    /\ pc = "dispatch"
    /\ LET name2function == Name2Function(args.kind)
       IN CASE args.is_from \notin DOMAIN name2function ->
                   /\ outcome' = Raised("ValueError")
                   /\ pc' = "raised"
                   /\ UNCHANGED events
            [] /\ args.is_from \in DOMAIN name2function
               /\ args.name \notin DOMAIN name2function[args.is_from] ->
                   /\ outcome' = Raised("ValueError")
                   /\ pc' = "raised"
                   /\ UNCHANGED events
            [] OTHER ->
                   /\ events' = <<Event("call",
                          GetFunc(args.kind, args.is_from, args.name))>>
                   /\ pc' = "get_func"
                   /\ UNCHANGED outcome
    /\ UNCHANGED <<df, entry, method, inplace, threads, heap, roots, args>>

\* A barostat getter: the required settings are read, the barostat is
\* constructed, the optional settings are set, the barostat is returned.
GetBarostat ==
    /\ pc = "get_func"
    /\ args.kind = "barostat"
    /\ LET func == events[1].path
           required == FirstExc(RequiredSettings(func, args.options))
           optional == FirstExc(OptionalSettings(func, args.options))
           constructed == Append(events, Event("construct", EngineClass(func)))
       IN CASE required # "none" ->
                   /\ outcome' = Raised(required)
                   /\ pc' = "raised"
                   /\ UNCHANGED events
            [] required = "none" /\ optional # "none" ->
                   /\ outcome' = Raised(optional)
                   /\ pc' = "raised"
                   /\ events' = constructed
            [] OTHER ->
                   /\ pc' = "done"
                   /\ events' = constructed
                   /\ UNCHANGED outcome
    /\ UNCHANGED <<df, entry, method, inplace, threads, heap, roots, args>>

\* An integrator or thermostat getter: it reads its settings, which may
\* raise, and constructs the object of its class.
GetIntegratorOrThermostat ==
    /\ pc = "get_func"
    /\ args.kind # "barostat"
    /\ \E exc \in {"none", "ValueError", "TypeError"} :
          IF exc # "none"
          THEN /\ outcome' = Raised(exc)
               /\ pc' = "raised"
               /\ UNCHANGED events
          ELSE /\ pc' = "done"
               /\ events' = Append(events, Event("construct",
                                                 EngineClass(events[1].path)))
               /\ UNCHANGED outcome
    /\ UNCHANGED <<df, entry, method, inplace, threads, heap, roots, args>>

NextGet == Dispatch \/ GetBarostat \/ GetIntegratorOrThermostat

SpecGet == InitGet /\ [][NextGet]_vars

\* The provider is in the table of the kind, and the name in the provider's.
SupportedPair ==
    /\ args.is_from \in DOMAIN Name2Function(args.kind)
    /\ args.name \in DOMAIN Name2Function(args.kind)[args.is_from]

\* C26: get_integrator, get_thermostat and get_barostat raise ValueError,
\* without constructing any engine object, when is_from is not a supported
\* provider or when name is not in that provider's table; for a supported
\* (provider, name) pair they call exactly the constructor function
\* registered under that name, the one that constructs the object of that
\* name.
C26_DispatchByTable ==
    /\ ~ SupportedPair =>
          /\ events = <<>>
          /\ pc \in {"dispatch", "raised"}
          /\ pc = "raised" => outcome = Raised("ValueError")
    /\ (SupportedPair /\ pc # "dispatch") =>
          /\ events[1] = Event("call",
                 Name2Function(args.kind)[args.is_from][args.name])
          /\ \A i \in 2 .. Len(events) :
                 events[i] = Event("construct", args.name)

\* An integrator asked of a provider that is not in the table: ValueError,
\* nothing called.
C26_Witness ==
    /\ pc = "raised"
    /\ outcome = Raised("ValueError")
    /\ args.kind = "integrator"
    /\ args.is_from = "openmmtools"
    /\ args.name = "LangevinIntegrator"
    /\ events = <<>>

\* A registered pair has called its getter and constructed its object.
C26_WitnessSupported ==
    /\ pc = "done"
    /\ args.kind = "barostat"
    /\ args.name = "MonteCarloAnisotropicBarostat"
    /\ events = <<Event("call", "get_openmm_monte_carlo_anisotropic_barostat"),
                  Event("construct", "MonteCarloAnisotropicBarostat")>>

\* The options hold a numeric pressure, surface_tension and temperature and
\* supported xy_mode and z_mode.
MembraneOptionsGiven(options) ==
    /\ {"pressure", "surface_tension", "temperature", "xy_mode", "z_mode"}
           \subseteq DOMAIN options
    /\ options["pressure"].type \in {"int", "float"}
    /\ options["surface_tension"].type \in {"int", "float"}
    /\ options["temperature"].type \in {"int", "float"}
    /\ options["xy_mode"] \in
           {Val("str", "XYIsotropic"), Val("str", "XYAnisotropic")}
    /\ options["z_mode"] \in
           {Val("str", "ZFree"), Val("str", "ZFixed"),
            Val("str", "ConstantVolume")}

\* C27: get_barostat("MonteCarloMembraneBarostat", "openmm", options) with
\* options holding a numeric pressure, surface_tension and temperature,
\* xy_mode in {XYIsotropic, XYAnisotropic} and z_mode in {ZFree, ZFixed,
\* ConstantVolume} reads every one of these required options successfully
\* and reaches the barostat constructor without raising.
C27_MembraneBarostatConstructed ==
    (/\ args.kind = "barostat"
     /\ args.name = "MonteCarloMembraneBarostat"
     /\ args.is_from = "openmm"
     /\ MembraneOptionsGiven(args.options)
     /\ pc \in {"done", "raised"}) =>
        /\ FirstExc(RequiredSettings(events[1].path, args.options)) = "none"
        /\ Len(events) = 2
        /\ events[2] = Event("construct", "MonteCarloMembraneBarostat")

------------------------------------------------------------------------------
(* openmmwrap-find-frame (execs/openmmwrap_find_frame.py, main).             *)

\* sys.exit(errstr): the message goes to stderr, the exit status is 1.
ErrorExit == Event("exit", <<"status 1">>)

\* A find_frame call that raised, taken never to have failed.
FailedNever(r) == FALSE

\* except Exception as e: the call raised.
Failed(r) == r.outcome.kind = "raise"

\* The values of --output-frame ("frame.csv" by default).
OutputFrames == {<<"frame.csv">>, <<"/", "srv", "frame.csv">>}

\* Lines 112-121: the arguments are parsed; no state data are loaded yet.
InitFindCli ==
    /\ df = PlainFrame(<<>>)
    /\ entry = df
    /\ method = "none"
    /\ outcome = NoCall
    /\ inplace \in BOOLEAN
    /\ NoThreads
    /\ NoConfig
    /\ pc = "load_state_data"
    /\ events = <<>>
    /\ \E m \in Methods : \E cwd \in CurrentDirs : \E wd \in WorkDirs(cwd) :
          \E output_frame \in OutputFrames :
             args = [method |-> m, cwd |-> cwd, work_dir |-> wd,
                     output_frame |-> output_frame]

\* Lines 178-198: the state data are loaded, or the command exits.
FindCliLoadStateData ==
    /\ pc = "load_state_data"
    /\ \/ /\ \E df_state_data \in ConcFrames :
                /\ df' = df_state_data
                /\ entry' = df_state_data
          /\ pc' = "find_frame"
          /\ events' = Append(events, Event("load_state_data", <<>>))
       \/ /\ pc' = "exit"
          /\ events' = Append(events, ErrorExit)
          /\ UNCHANGED <<df, entry>>
    /\ UNCHANGED <<method, outcome, inplace, threads, heap, roots, args>>

\* Lines 205-225: find_frame is called on the state data, and the command
\* exits when the call raises.
FindCliFindFrame ==
    /\ pc = "find_frame"
    /\ \E r \in {FindFrameResult(df, args.method, inplace)} :
          /\ df' = r.df
          /\ method' = args.method
          /\ outcome' = r.outcome
          /\ IF Failed(r)
             THEN /\ pc' = "exit"
                  /\ events' = Append(events, ErrorExit)
             ELSE /\ pc' = "save"
                  /\ events' = Append(events, Event("find_frame", <<>>))
    /\ UNCHANGED <<entry, inplace, threads, heap, roots, args>>

\* Lines 232-256: the frame is written to work_dir joined with the output
\* name, or the command exits.
FindCliSave ==
    /\ pc = "save"
    /\ LET output_frame_path == PathJoin(args.work_dir, args.output_frame)
       IN \E saved \in BOOLEAN :
             IF saved
             THEN /\ pc' = "done"
                  /\ events' = Append(events,
                                      Event("to_csv", output_frame_path))
             ELSE /\ pc' = "exit"
                  /\ events' = Append(events, ErrorExit)
    /\ UNCHANGED <<df, entry, method, outcome, inplace, threads, heap, roots,
                   args>>

NextFindCli == FindCliLoadStateData \/ FindCliFindFrame \/ FindCliSave

SpecFindCli == InitFindCli /\ [][NextFindCli]_vars

\* What the command has done, in order.
Ops == [i \in 1 .. Len(events) |-> events[i].op]

\* C28: in openmmwrap-find-frame the stages run strictly in the order load
\* state data, find frame, write frame file.  The frame file is written
\* only if both earlier stages succeeded (the state data were loaded and
\* find_frame returned a row); a failure in any stage ends the process with
\* an error exit, and no later stage is executed.
C28_StagesInOrder ==
    /\ Ops \in {<<>>,
                <<"exit">>,
                <<"load_state_data">>,
                <<"load_state_data", "exit">>,
                <<"load_state_data", "find_frame">>,
                <<"load_state_data", "find_frame", "exit">>,
                <<"load_state_data", "find_frame", "to_csv">>}
    /\ (\E i \in 1 .. Len(events) : events[i].op = "find_frame")
           => outcome.kind = "row"
    /\ outcome.kind = "raise" => (pc = "exit" /\ Ops[Len(Ops)] = "exit")
    /\ (\E i \in 1 .. Len(events) : events[i].op = "exit")
           => (pc = "exit" /\ events[Len(events)] = ErrorExit)
    /\ pc = "done" => Ops[Len(Ops)] = "to_csv"

\* find_frame raised on loaded state data for a method the command offers:
\* the command exited and wrote no frame file.
C28_Witness ==
    /\ pc = "exit"
    /\ Ops = <<"load_state_data", "exit">>
    /\ outcome.kind = "raise"
    /\ args.method \in SupportedMethods
    /\ NRows(entry) > 0

\* The three stages have run and the frame file is written.
C28_WitnessWritten ==
    /\ pc = "done"
    /\ Ops = <<"load_state_data", "find_frame", "to_csv">>
    /\ outcome.kind = "row"

------------------------------------------------------------------------------
(* recursive_merge folded over three mappings (io/_util.py, lines 18-71):   *)
(* the two groupings of the fold.                                            *)

\* The three mappings hold at most this many key-value pairs together.
MaxFoldEntries == 4

\* Triples of mappings holding at most max pairs together, their non-mapping
\* values scalars: a's carry 1, b's carry 2, c's carry 3.
FoldInputs(max) ==
    UNION {UNION {UNION {DictsOfSize(i, {IntT(1)}) \X DictsOfSize(j, {IntT(2)})
                             \X DictsOfSize(k, {IntT(3)}) :
                            k \in 0 .. max - i - j} :
                     j \in 0 .. max - i} :
              i \in 0 .. max}

InitFold ==
    /\ NoFrame
    /\ NoProcess
    /\ \E p \in FoldInputs(MaxFoldEntries) :
          LET ra == Load(<<>>, p[1])
              rb == Load(ra.h, p[2])
              rc == Load(rb.h, p[3])
          IN /\ heap = rc.h
             /\ roots = <<Root("a", ra.x, rc.h), Root("b", rb.x, rc.h),
                          Root("c", rc.x, rc.h)>>

Bound(name) == \E i \in 1 .. Len(roots) : roots[i].name = name

\* a_bc = recursive_merge(a, recursive_merge(b, c))
MergeInnerFirst ==
    /\ ~ Bound("a_bc")
    /\ \E inner \in {RecursiveMerge(heap, roots[2].addr, roots[3].addr)} :
          \E r \in {RecursiveMerge(inner.h, roots[1].addr, inner.x.v)} :
             /\ heap' = r.h
             /\ roots' = Append(roots, Root("a_bc", r.x, r.h))
    /\ UNCHANGED <<df, entry, method, outcome, inplace, threads, pc,
                   events, args>>

\* ab_c = recursive_merge(recursive_merge(a, b), c)
MergeOuterFirst ==
    /\ ~ Bound("ab_c")
    /\ \E inner \in {RecursiveMerge(heap, roots[1].addr, roots[2].addr)} :
          \E r \in {RecursiveMerge(inner.h, inner.x.v, roots[3].addr)} :
             /\ heap' = r.h
             /\ roots' = Append(roots, Root("ab_c", r.x, r.h))
    /\ UNCHANGED <<df, entry, method, outcome, inplace, threads, pc,
                   events, args>>

NextFold ==
    \/ MergeInnerFirst
    \/ MergeOuterFirst

SpecFold == InitFold /\ [][NextFold]_vars

------------------------------------------------------------------------------
(* Claims about the fold, under SpecFold.                                    *)

Named(name) == roots[CHOOSE i \in 1 .. Len(roots) : roots[i].name = name].was

BothGroupings == Bound("a_bc") /\ Bound("ab_c")

\* A key path the two trees share at which one holds a mapping and the other
\* does not.
RECURSIVE KindClash(_, _)
KindClash(x, y) ==
    IF IsMapping(x) /\ IsMapping(y)
    THEN \E k \in Range(x.keys) \cap Range(y.keys) :
            KindClash(x.val[k], y.val[k])
    ELSE IsMapping(x) # IsMapping(y)

KindConsistent ==
    /\ ~ KindClash(roots[1].was, roots[2].was)
    /\ ~ KindClash(roots[1].was, roots[3].was)
    /\ ~ KindClash(roots[2].was, roots[3].was)

\* C29: for nested mappings a, b, c in which every key path that occurs in
\* more than one of them has the same kind (mapping or non-mapping) in each,
\* recursive_merge is associative: merge(a, merge(b, c)) equals
\* merge(merge(a, b), c).
C29_MergeAssociative ==
    (BothGroupings /\ KindConsistent)
        => SameValue(Named("a_bc"), Named("ab_c"))

\* Both groupings computed for three kind-consistent mappings that all hold a
\* mapping at one key, the merged mapping at that key not empty.
C29_Witness ==
    /\ BothGroupings
    /\ KindConsistent
    /\ \E k \in MergeKeys :
          /\ \A i \in 1 .. 3 :
                Has(roots[i].was, k) /\ IsMapping(roots[i].was.val[k])
          /\ Named("a_bc").val[k].keys # <<>>
          /\ Named("ab_c").val[k].keys # <<>>

------------------------------------------------------------------------------
(* convert_trajectory (md/conversion.py, lines 33-147).                      *)

\* The trajectory holds at most this many frames; start and end range over
\* the same numbers.
MaxFrames == 4

MaxStride == 3

\* An optional integer argument: None, or the integer.
NoInt == [given |-> FALSE, n |-> 0]

IntArg(n) == [given |-> TRUE, n |-> n]

\* x if x is not None else default (lines 110, 114, 118).
OrDefault(x, default) == IF x.given THEN x.n ELSE default

Least(a, b) == IF a <= b THEN a ELSE b

Most(a, b) == IF a >= b THEN a ELSE b

\* slice.indices: a bound of a slice with a positive step on a sequence of
\* n elements, counted from the end when negative, clipped to 0 .. n.
Clip(n, i) == IF i < 0 THEN Most(i + n, 0) ELSE Least(i, n)

\* The indices of sequence[start:stop:step], step >= 1, in order: from start
\* in steps of step, below stop and below the length.
SliceIndices(n, start, stop, step) ==
    LET lo == Clip(n, start)
        hi == Clip(n, stop)
    IN [k \in 1 .. (IF hi > lo THEN (hi - lo + step - 1) \div step ELSE 0)
           |-> lo + (k - 1) * step]

OptionalFrame == {NoInt} \cup {IntArg(i) : i \in 0 .. MaxFrames}

OptionalStride == {NoInt} \cup {IntArg(i) : i \in 1 .. MaxStride}

\* frames: None, or a list of frames of the trajectory.
FrameLists(n) ==
    {[given |-> FALSE, list |-> <<>>], [given |-> TRUE, list |-> <<>>]}
    \cup {[given |-> TRUE, list |-> <<i>>] : i \in 0 .. n - 1}
    \cup {[given |-> TRUE, list |-> <<i, 0>>] : i \in 1 .. n - 1}

\* center and center_selection.
Centerings ==
    {[center |-> FALSE, selection |-> FALSE],
     [center |-> TRUE, selection |-> FALSE],
     [center |-> TRUE, selection |-> TRUE]}

ConvertCalls(max_frames) ==
    UNION {{[n_frames |-> n, start |-> s, end |-> e, stride |-> st,
             frames |-> f, centering |-> c, slice |-> <<>>] :
               s \in OptionalFrame, e \in OptionalFrame,
               st \in OptionalStride, f \in FrameLists(n),
               c \in Centerings} :
           n \in 0 .. max_frames}

InitConvert ==
    /\ NoFrame
    /\ NoConfig
    /\ pc = "open"
    /\ events = <<>>
    /\ args \in ConvertCalls(MaxFrames)

\* Lines 52-133: the universe, the centering (ValueError at line 70 without
\* a center_selection), the defaults, the writer and the slice.
OpenAndSlice ==
    /\ pc = "open"
    /\ IF args.centering.center /\ ~ args.centering.selection
       THEN /\ pc' = "raised"
            /\ outcome' = Raised("ValueError")
            /\ args' = args
       ELSE LET start  == OrDefault(args.start, 0)
                end    == OrDefault(args.end, args.n_frames - 1)
                stride == OrDefault(args.stride, 1)
            IN /\ pc' = "write"
               /\ outcome' = outcome
               /\ args' = [args EXCEPT !.slice =
                              IF args.frames.given
                              THEN args.frames.list
                              ELSE SliceIndices(args.n_frames, start,
                                                end + stride, stride)]
    /\ UNCHANGED <<df, entry, method, inplace, threads, heap, roots, events>>

\* Lines 136-144: the next frame of the slice is written.
WriteFrame ==
    /\ pc = "write"
    /\ Len(events) < Len(args.slice)
    /\ events' = Append(events, args.slice[Len(events) + 1])
    /\ UNCHANGED <<df, entry, method, outcome, inplace, threads, heap, roots,
                   pc, args>>

\* Line 147: the slice is exhausted, the writer closed.
CloseWriter ==
    /\ pc = "write"
    /\ Len(events) = Len(args.slice)
    /\ pc' = "done"
    /\ UNCHANGED <<df, entry, method, outcome, inplace, threads, heap, roots,
                   events, args>>

NextConvert ==
    \/ OpenAndSlice
    \/ WriteFrame
    \/ CloseWriter

SpecConvert == InitConvert /\ [][NextConvert]_vars

------------------------------------------------------------------------------
(* Claims about convert_trajectory, under SpecConvert.                       *)

FirstFrame == OrDefault(args.start, 0)

LastFrame == OrDefault(args.end, args.n_frames - 1)

Stride == OrDefault(args.stride, 1)

\* C30: convert_trajectory called without an explicit frames list, with
\* start <= end and stride >= 1 (end defaulting to the last frame, start to
\* 0, stride to 1), writes the frames start, start + stride, ... in order,
\* every written index lies in [start, end], and when it returns it has
\* written all the frames of the trajectory among those.
C30_WrittenWithinStartEnd ==
    (/\ ~ args.frames.given
     /\ FirstFrame <= LastFrame
     /\ Stride >= 1)
        => /\ \A i \in 1 .. Len(events) :
                 /\ events[i] = FirstFrame + (i - 1) * Stride
                 /\ events[i] >= FirstFrame
                 /\ events[i] <= LastFrame
           /\ pc = "done" =>
                 \A j \in FirstFrame .. Least(LastFrame, args.n_frames - 1) :
                    (j - FirstFrame) % Stride = 0
                        => \E i \in 1 .. Len(events) : events[i] = j

====
